---- MODULE Spec2Model ----
(***************************************************************************)
(* A model of ssaavvee's auth.js: the FirebaseAuthManager gateway, the     *)
(* PageRenderer view controller and its content formatter, together with   *)
(* the provider (identity + document store) they talk to, constrained by   *)
(* the shipped firestore rules.                                            *)
(*                                                                         *)
(* Text is a sequence of one-character strings.  The two URL schemes are   *)
(* single tokens "http://" and "https://", so that a bounded text can hold *)
(* a URL; no other token of a text contains a letter of a scheme.          *)
(***************************************************************************)
EXTENDS Integers, Sequences, FiniteSets, Bags, TLC

\* ------------------------------------------------------------------ bounds
MaxSubs == 3
MaxInFlight == 1
MaxQueue == 1
MaxPosts == 1
MaxCats == 2
MaxTextLen == 3
MaxDays == 8

\* ------------------------------------------------------ program constants
\* subscribeToPosts(callback, category = null, limitCount = 50)
DefaultLimit == 50
\* password.length < 6
MinPasswordLen == 6
\* <textarea id="post-content" ... maxlength="500">
MaxContentLen == 500
\* README.md: "Automatic logout after 7 days"
SessionDays == 7

\* -------------------------------------------------------------- text: names
All == <<"A", "l", "l">>
General == <<"G", "e", "n", "e", "r", "a", "l">>
NoText == <<>>

\* ---------------------------------------------------- text: String.trim()
IsSpace(c) == c \in {" ", "\n"}

RECURSIVE trimStart(_)
trimStart(s) == IF s # <<>> /\ IsSpace(Head(s)) THEN trimStart(Tail(s)) ELSE s

RECURSIVE trimEnd(_)
trimEnd(s) ==
    IF s # <<>> /\ IsSpace(s[Len(s)]) THEN trimEnd(SubSeq(s, 1, Len(s) - 1)) ELSE s

trim(s) == trimEnd(trimStart(s))

\* ------------------------------------------------- text: escapeHtml(text)
\* div.textContent = text; return div.innerHTML: the serialisation of a text
\* node replaces & < > by their entities and nothing else of this alphabet.
escapeCharNone(c) == <<c>>

escapeChar(c) ==
    CASE c = "&" -> <<"&", "a", "m", "p", ";">>
      [] c = "<" -> <<"&", "l", "t", ";">>
      [] c = ">" -> <<"&", "g", "t", ";">>
      [] OTHER -> <<c>>

RECURSIVE escapeHtml(_)
escapeHtml(text) ==
    IF text = <<>> THEN <<>> ELSE escapeChar(Head(text)) \o escapeHtml(Tail(text))

\* ------------------------------------- text: the URL pattern of the renderer
\* /(https?:\/\/[^\s<>"']+[^\s<>"'.,!?;:])/g
Scheme(c) == c \in {"http://", "https://"}
UrlChar(c) == ~IsSpace(c) /\ c \notin {"<", ">", "\"", "'"}
UrlEndChar(c) == UrlChar(c) /\ c \notin {".", ",", "!", "?", ";", ":"}

\* The end of the greedy run [^\s<>"']+ that starts after the scheme at i.
RECURSIVE RunEnd(_, _)
RunEnd(text, j) ==
    IF j < Len(text) /\ UrlChar(text[j + 1]) THEN RunEnd(text, j + 1) ELSE j

\* The end of the match that starts with the scheme at i, 0 when there is none:
\* the regex backtracks from the end of the run to the last position whose
\* character may end a URL, and at least two characters follow the scheme (a
\* scheme token inside the run is seven or eight characters, its last one "/").
MatchEnd(text, i) ==
    LET ends == {e \in (i + 1)..RunEnd(text, i) :
                    /\ UrlEndChar(text[e])
                    /\ (e >= i + 2 \/ Scheme(text[i + 1]))}
    IN  IF ends = {} THEN 0 ELSE CHOOSE e \in ends : \A f \in ends : f <= e

\* The replacement '<a href="$1" target="_blank" rel="noopener noreferrer" ...>$1</a>'
AnchorOpen == "<a href=\""
AnchorMid ==
    "\" target=\"_blank\" rel=\"noopener noreferrer\" class=\"text-custom-blue underline hover:opacity-80 font-medium\">"
AnchorClose == "</a>"

RECURSIVE linkifyFrom(_, _)
linkifyFrom(text, i) ==
    IF i > Len(text) THEN <<>>
    ELSE IF Scheme(text[i]) /\ MatchEnd(text, i) # 0
         THEN LET e == MatchEnd(text, i)
                  url == SubSeq(text, i, e)
              IN  <<AnchorOpen>> \o url \o <<AnchorMid>> \o url \o <<AnchorClose>>
                      \o linkifyFrom(text, e + 1)
         ELSE <<text[i]>> \o linkifyFrom(text, i + 1)

linkifyText(text) == linkifyFrom(text, 1)

RECURSIVE extractFrom(_, _)
extractFrom(text, i) ==
    IF i > Len(text) THEN <<>>
    ELSE IF Scheme(text[i]) /\ MatchEnd(text, i) # 0
         THEN <<SubSeq(text, i, MatchEnd(text, i))>>
                  \o extractFrom(text, MatchEnd(text, i) + 1)
         ELSE extractFrom(text, i + 1)

extractUrls(text) == extractFrom(text, 1)

\* generateLinkPreview(url): the card of one URL.  Both branches of the source
\* (parsed and malformed URL) insert the URL as given; the host and title the
\* card derives from the URL are left out.
CardOpen == "<div card>"
CardClose == "</div>"
generateLinkPreview(url) == <<CardOpen>> \o url \o <<CardClose>>

RECURSIVE joinAll(_)
joinAll(seqs) == IF seqs = <<>> THEN <<>> ELSE Head(seqs) \o joinAll(Tail(seqs))

\* ------------------------------------------------------------------ inputs
\* What a user can type into the forms and the prompt, or pass to the gateway.
EmailA == <<"a", "@", "x", ".", "y">>
EmailB == <<"b", "@", "x", ".", "y">>
BadEmail == <<"a", "@", "x">>
Emails == {EmailA, EmailB, BadEmail}

Pw6 == <<"s", "e", "c", "r", "e", "t">>
Pw5 == <<"s", "e", "c", "r", "e">>
Passwords == {Pw6, Pw5}

CatX == <<"X">>
CatMarkup == <<"<", "b", ">">>
CatNames == {CatX, All, CatMarkup, <<" ">>}

Contents == {<<" ">>, <<"h", "i", " ">>, <<"<", "i", ">">>}

\* An error that carries no code.
NoCode == "none"

\* The provider's error codes handleFirebaseError knows, one it does not, and
\* no code.
ErrorCodes ==
    {"auth/email-already-in-use", "auth/invalid-email", "auth/operation-not-allowed",
     "auth/weak-password", "auth/user-disabled", "auth/user-not-found",
     "auth/wrong-password", "auth/invalid-credential", "auth/too-many-requests",
     "auth/network-request-failed", NoCode}

\* The codes the specifications of the whole page and of the session draw from.
FewCodes ==
    {"auth/email-already-in-use", "auth/weak-password", "auth/invalid-credential",
     "auth/network-request-failed"}

\* ------------------------------------------------------------------- state
VARIABLES
    view,                   \* the page the container shows
    postsContainer,         \* #posts-container of the dashboard
    categoriesList,         \* #categories-list: the category buttons
    submitDisabled,         \* the displayed form's submit button is disabled
    formError,              \* the displayed form's inline error ("" when hidden)
    currentUser,            \* FirebaseAuthManager.currentUser (0 is null)
    selectedCategory,       \* PageRenderer.selectedCategory
    clickedButton,          \* the label of the category button the user clicked last
    categories,             \* PageRenderer.categories
    postsUnsubscribe,       \* PageRenderer.postsUnsubscribe: the query it ends
    categoriesUnsubscribe,  \* PageRenderer.categoriesUnsubscribe: the query it ends
    apiHandle,              \* the handle a direct caller of subscribeToPosts got
    authUser,               \* the provider's signed-in identity (0 is none)
    sessionAge,             \* the days since the provider signed that identity in
    authQueue,              \* auth-state notifications not yet delivered
    accounts,               \* the provider's identities: accounts[uid] is the email
    profiles,               \* collection users: profiles[uid]
    posts,                  \* collection posts, in creation order
    cats,                   \* collection categories, in creation order
    creators,               \* history: who created each stored post and category
    leaked,                 \* the live queries whose handle the renderer dropped
    inflight,               \* provider requests awaiting their response
    outcome                 \* how the gateway call or callback of the last step ended

vars ==
    <<view, postsContainer, categoriesList, submitDisabled, formError, currentUser,
      selectedCategory, clickedButton, categories, postsUnsubscribe, categoriesUnsubscribe,
      apiHandle,
      authUser, sessionAge, authQueue, accounts, profiles, posts, cats, creators, leaked,
      inflight, outcome>>

domVars == <<view, postsContainer, categoriesList, submitDisabled, formError>>
rendererVars == <<selectedCategory, clickedButton, categories>>
subVars == <<postsUnsubscribe, categoriesUnsubscribe, apiHandle, leaked>>
storeVars == <<accounts, profiles, posts, cats, creators>>

\* ------------------------------------------------------- error messages
AuthRequiredPost == "User must be authenticated to create posts"
AuthRequiredCategory == "User must be authenticated to create categories"
EmptyPost == "Post content cannot be empty"
EmptyCategory == "Category name cannot be empty"
FailedPost == "Failed to create post"
FailedCategory == "Failed to create category"
FailedProfile == "Failed to create user profile"
FailedSignOut == "Failed to sign out"
AuthRequiredView == "User must be authenticated to view posts"
FailedSubscribe == "Failed to subscribe to posts"
GenericAuth == "Authentication failed. Please try again"

handleFirebaseErrorRaw(code) ==
    CASE code = "auth/email-already-in-use" -> "An account with this email already exists"
      [] code = "auth/invalid-credential" -> "Invalid email or password"
      [] code = NoCode -> FailedProfile
      [] OTHER -> code

\* handleFirebaseError(error)
handleFirebaseError(code) ==
    CASE code = "auth/email-already-in-use" -> "An account with this email already exists"
      [] code = "auth/invalid-email" -> "Please enter a valid email address"
      [] code = "auth/operation-not-allowed" -> "Email/password accounts are not enabled"
      [] code = "auth/weak-password" -> "Password should be at least 6 characters"
      [] code = "auth/user-disabled" -> "This account has been disabled"
      [] code = "auth/user-not-found" -> "No account found with this email"
      [] code = "auth/wrong-password" -> "Incorrect password"
      [] code = "auth/invalid-credential" -> "Invalid email or password"
      [] code = "auth/too-many-requests" -> "Too many failed attempts. Please try again later"
      [] OTHER -> GenericAuth

\* ------------------------------------------------------------- the store
\* No document stored yet, so none created by anyone.
NoCreators == [posts |-> <<>>, categories |-> <<>>]

NoProfile == [fields |-> {}, email |-> NoText]
ProfileFields == {"email", "createdAt", "lastLogin"}

\* firestore rules: match /users/{userId}: allow read, write
RuleUsersWrite(auth, userId) == auth # 0 /\ auth = userId
RulePostsCreateAnyUser(auth, data) == auth # 0

\* match /posts/{postId}: allow create
RulePostsCreate(auth, data) == auth # 0 /\ auth = data.userId
\* match /categories/{categoryId}: allow create
RuleCategoriesCreate(auth, data) == auth # 0 /\ auth = data.createdBy
\* allow read (posts and categories)
RuleRead(auth) == auth # 0
\* match /users/{userId}: allow read
RuleUsersRead(auth, userId) == auth # 0 /\ auth = userId
\* match /posts/{postId}: allow update, delete
RulePostsUpdateDelete(auth, resource) == auth # 0 /\ auth = resource.userId
\* match /categories/{categoryId}: allow update, delete
RuleCategoriesUpdateDelete(auth, resource) == auth # 0 /\ auth = resource.createdBy

\* ------------------------------------------------------------ live queries
\* subscribeToPosts: the filter the query gets for the category it is given.
postsFilterAlways(category) == category

postsFilter(category) ==
    IF category # NoText /\ category # All THEN category ELSE NoText

RECURSIVE SelectSeq2(_, _)
SelectSeq2(s, f) ==
    IF s = <<>> THEN <<>>
    ELSE IF f = NoText \/ Head(s).category = f
         THEN <<Head(s)>> \o SelectSeq2(Tail(s), f)
         ELSE SelectSeq2(Tail(s), f)

Reverse(s) == [i \in 1..Len(s) |-> s[Len(s) + 1 - i]]
Take(s, n) == IF Len(s) <= n THEN s ELSE SubSeq(s, 1, n)

\* query(where('category','==',c), orderBy('createdAt','desc'), limit(n))
PostsResult(all, category, n) == Take(Reverse(SelectSeq2(all, postsFilter(category))), n)
\* query(orderBy('createdAt','asc'))
CategoriesResult(all) == all

\* A query opened by onSnapshot, as the handle that ends it.  state: "live"
\* until the handle is called ("released", "rereleased" when it is called
\* again) or the provider ends the query after an error ("failed"); dirty: the
\* provider has a snapshot to deliver.
LimitedSub(kind, category, n) ==
    [kind |-> kind, category |-> category, limit |-> n, state |-> "live", dirty |-> TRUE]

\* The queries of the page: it passes no limit, so subscribeToPosts takes 50
\* (the categories query has none, and never reads the field).
NewSub(kind, category) == LimitedSub(kind, category, DefaultLimit)

\* null, where a handle is expected.
NoHandle ==
    [kind |-> "none", category |-> NoText, limit |-> DefaultLimit, state |-> "none",
     dirty |-> FALSE]

\* Calling an unsubscribe handle.
Release(sub) ==
    [sub EXCEPT !.state = IF @ \in {"live", "failed"} THEN "released" ELSE "rereleased",
                !.dirty = FALSE]

\* The renderer overwrites a handle: a query that is still live stays open at
\* the provider, with nothing left to end it.
LeakedWith(bag, old) == IF old.state = "live" THEN bag (+) SetToBag({old}) ELSE bag

\* The queries open at the provider, and where the page keeps each.
Queries ==
    {q \in {[at |-> "postsUnsubscribe", sub |-> postsUnsubscribe],
            [at |-> "categoriesUnsubscribe", sub |-> categoriesUnsubscribe],
            [at |-> "apiHandle", sub |-> apiHandle]}
            \cup {[at |-> "leaked", sub |-> l] : l \in BagToSet(leaked)} :
        q.sub.state = "live"}

IsLive(sub) == sub.state = "live"
LiveCount(kind) ==
    (IF IsLive(postsUnsubscribe) /\ kind = "posts" THEN 1 ELSE 0)
    + (IF IsLive(categoriesUnsubscribe) /\ kind = "categories" THEN 1 ELSE 0)
    + (IF IsLive(apiHandle) /\ kind = "posts" THEN 1 ELSE 0)
    + BagCardinality([l \in {x \in BagToSet(leaked) : x.kind = kind} |-> leaked[l]])
LiveTotal == LiveCount("posts") + LiveCount("categories")

\* The provider changes the query q to sub.
SetQuery(q, sub) ==
    /\ postsUnsubscribe' = IF q.at = "postsUnsubscribe" THEN sub ELSE postsUnsubscribe
    /\ categoriesUnsubscribe' =
           IF q.at = "categoriesUnsubscribe" THEN sub ELSE categoriesUnsubscribe
    /\ apiHandle' = IF q.at = "apiHandle" THEN sub ELSE apiHandle
    /\ leaked' = IF q.at = "leaked"
                 THEN LeakedWith(leaked (-) SetToBag({q.sub}), sub)
                 ELSE leaked

\* A write to a collection: every live query whose result it changes has a
\* snapshot to deliver.
TouchSub(sub, kind, category) ==
    IF sub.kind = kind /\ sub.state = "live"
       /\ (kind = "posts" => postsFilter(sub.category) \in {NoText, category})
    THEN [sub EXCEPT !.dirty = TRUE] ELSE sub

TouchBag(bag, kind, category) ==
    LET image == {TouchSub(l, kind, category) : l \in BagToSet(bag)}
        copies(t) == {l \in BagToSet(bag) : TouchSub(l, kind, category) = t}
        RECURSIVE sum(_)
        sum(ls) == IF ls = {} THEN 0
                   ELSE LET l == CHOOSE x \in ls : TRUE IN bag[l] + sum(ls \ {l})
    IN  [t \in image |-> sum(copies(t))]

Touch(kind, category) ==
    /\ postsUnsubscribe' = TouchSub(postsUnsubscribe, kind, category)
    /\ categoriesUnsubscribe' = TouchSub(categoriesUnsubscribe, kind, category)
    /\ apiHandle' = TouchSub(apiHandle, kind, category)
    /\ leaked' = TouchBag(leaked, kind, category)

\* ------------------------------------------------------------- rendering
Absent == [kind |-> "absent", items |-> <<>>]
Loading == [kind |-> "loading", items |-> <<>>]
FeedError == [kind |-> "error", items |-> <<>>]

\* renderPosts: what one post contributes to #posts-container.
postCategoryHtml(post) == IF post.category = NoText THEN General ELSE post.category
postContentHtml(post) == linkifyText(escapeHtml(post.content))
postPreviewsHtml(post) ==
    LET urls == extractUrls(post.content)
    IN  joinAll([i \in 1..Len(urls) |-> generateLinkPreview(urls[i])])

postHtml(post) ==
    [category |-> postCategoryHtml(post), content |-> postContentHtml(post),
     previews |-> postPreviewsHtml(post)]

renderPosts(ps) ==
    IF ps = <<>> THEN [kind |-> "empty", items |-> <<>>]
    ELSE [kind |-> "posts", items |-> [i \in 1..Len(ps) |-> postHtml(ps[i])]]

\* The label of #category-all.
AllMessages == <<"All messages">>

\* data-category="${category.name}": the attribute ends at the first double
\* quote of the name.
RECURSIVE attrValue(_)
attrValue(name) ==
    IF name = <<>> \/ Head(name) = "\"" THEN <<>>
    ELSE <<Head(name)>> \o attrValue(Tail(name))

\* renderCategories: one button per category.
categoryButton(category) == [attr |-> attrValue(category.name), html |-> category.name]
renderCategories(cs) == [i \in 1..Len(cs) |-> categoryButton(cs[i])]

\* Replacing container.innerHTML drops the elements the running handlers hold.
Detached(ops) == [i \in DOMAIN ops |-> [ops[i] EXCEPT !.detached = TRUE]]

\* renderLoginPage / renderSignupPage
RenderAuthPage(v) ==
    /\ view' = v
    /\ postsContainer' = Absent
    /\ categoriesList' = <<>>
    /\ submitDisabled' = FALSE
    /\ formError' = ""

\* ------------------------------------------------------------- requests
\* A provider request awaiting its response, with what its caller holds: via
\* is "form" for a page handler and "api" for a direct call of the gateway;
\* detached says that the page was rendered again since the handler started.
Op(kind, via, uid, a, b) ==
    [kind |-> kind, via |-> via, detached |-> FALSE, uid |-> uid, a |-> a, b |-> b]

Remove(ops, i) == [j \in 1..(Len(ops) - 1) |-> IF j < i THEN ops[j] ELSE ops[j + 1]]
Replace(ops, i, op) == [ops EXCEPT ![i] = op]

Outcome(of, result) == [of |-> of, result |-> result]
\* A step in which no gateway call and no callback ends.
Quiet == outcome' = Outcome("none", "ok")

UidOf(email) == IF \E u \in DOMAIN accounts : accounts[u] = email
                THEN CHOOSE u \in DOMAIN accounts : accounts[u] = email
                ELSE 0
EmailOf(uid) == IF uid \in DOMAIN accounts THEN accounts[uid] ELSE NoText

\* The provider tells the auth-state listener about a change of the signed-in
\* identity.
Notify(u) == IF u # authUser THEN Append(authQueue, u) ELSE authQueue
CanNotify(u) == u = authUser \/ Len(authQueue) < MaxQueue

isValidEmailNoDot(email) ==
    \E p \in 2..(Len(email) - 1) :
        /\ email[p] = "@"
        /\ \A i \in 1..Len(email) : ~IsSpace(email[i]) /\ (email[i] = "@" => i = p)

\* isValidEmail(email): /^[^\s@]+@[^\s@]+\.[^\s@]+$/
isValidEmail(email) ==
    \E p \in 2..Len(email) :
        /\ email[p] = "@"
        /\ \A i \in 1..Len(email) : ~IsSpace(email[i]) /\ (email[i] = "@" => i = p)
        /\ \E k \in (p + 2)..(Len(email) - 1) : email[k] = "."

\* ---------------------------------------------------------------- Init
\* initializeAuthApp: the loading page and a fresh PageRenderer.
InitPage ==
    /\ view = "Loading"
    /\ postsContainer = Absent
    /\ categoriesList = <<>>
    /\ submitDisabled = FALSE
    /\ formError = ""
    /\ currentUser = 0
    /\ selectedCategory = All
    /\ clickedButton = AllMessages
    /\ categories = <<>>
    /\ postsUnsubscribe = NoHandle
    /\ categoriesUnsubscribe = NoHandle
    /\ apiHandle = NoHandle
    /\ leaked = EmptyBag
    /\ inflight = <<>>
    /\ outcome = Outcome("none", "ok")
    /\ sessionAge = 0

\* The page opened on an empty project: the provider is about to report the
\* initial, signed-out auth state.
Init ==
    /\ InitPage
    /\ authUser = 0
    /\ authQueue = <<0>>
    /\ accounts = <<>>
    /\ profiles = <<>>
    /\ posts = <<>>
    /\ cats = <<>>
    /\ creators = NoCreators

\* ------------------------------------------------ the dashboard's feed
\* initializeFeed, for the signed-in user: failPosts / failCategories say that
\* the provider throws when the posts / categories query is opened.
InitializeFeed(failPosts, failCategories) ==
    IF failPosts
    THEN /\ postsContainer' = FeedError
         /\ UNCHANGED subVars
    ELSE IF failCategories
    THEN /\ postsUnsubscribe' = NewSub("posts", selectedCategory)
         /\ UNCHANGED <<categoriesUnsubscribe, apiHandle>>
         /\ leaked' = LeakedWith(leaked, postsUnsubscribe)
         /\ postsContainer' = FeedError
    ELSE /\ postsUnsubscribe' = NewSub("posts", selectedCategory)
         /\ categoriesUnsubscribe' = NewSub("categories", NoText)
         /\ UNCHANGED apiHandle
         /\ leaked' = LeakedWith(LeakedWith(leaked, postsUnsubscribe), categoriesUnsubscribe)
         /\ postsContainer' = Loading

\* renderDashboard, called with currentUser already set to user.
RenderDashboard(user, failPosts, failCategories) ==
    IF user = 0
    THEN /\ RenderAuthPage("Login")
         /\ UNCHANGED subVars
    ELSE /\ view' = "Dashboard"
         /\ categoriesList' = <<>>
         /\ submitDisabled' = FALSE
         /\ formError' = ""
         /\ InitializeFeed(failPosts, failCategories)

\* The listener of initialize(): currentUser = user; handleAuthStateChange(user).
AuthStateChanged(failPosts, failCategories) ==
    /\ authQueue # <<>>
    /\ LET user == Head(authQueue)
       IN  /\ user # 0 => LiveTotal + 2 <= MaxSubs
           /\ currentUser' = user
           /\ IF user # 0
              THEN RenderDashboard(user, failPosts, failCategories)
              ELSE /\ RenderAuthPage("Login")
                   /\ UNCHANGED subVars
    /\ authQueue' = Tail(authQueue)
    /\ inflight' = Detached(inflight)
    /\ UNCHANGED <<rendererVars, authUser, sessionAge, storeVars>>
    /\ Quiet

\* ------------------------------------------------------- navigation
\* #go-to-signup
GoToSignup ==
    /\ view = "Login"
    /\ RenderAuthPage("Signup")
    /\ inflight' = Detached(inflight)
    /\ UNCHANGED <<currentUser, rendererVars, authUser, sessionAge, authQueue, storeVars, subVars>>
    /\ Quiet

\* #go-to-login
GoToLogin ==
    /\ view = "Signup"
    /\ RenderAuthPage("Login")
    /\ inflight' = Detached(inflight)
    /\ UNCHANGED <<currentUser, rendererVars, authUser, sessionAge, authQueue, storeVars, subVars>>
    /\ Quiet

\* What the catch block of a form handler does with the elements it holds.
ShowError(op, message) ==
    IF op.via = "form" /\ ~op.detached
    THEN formError' = message /\ submitDisabled' = FALSE
    ELSE UNCHANGED <<formError, submitDisabled>>

\* ------------------------------------------------------------ sign-up
\* The submit handler of #signup-form.
SignupSubmit(emailField, password, confirmPassword) ==
    /\ view = "Signup" /\ ~submitDisabled
    /\ LET email == trim(emailField)
       IN  IF ~isValidEmail(email)
           THEN /\ formError' = "Please enter a valid email address"
                /\ UNCHANGED <<submitDisabled, inflight>>
           ELSE IF Len(password) < MinPasswordLen
           THEN /\ formError' = "Password must be at least 6 characters long"
                /\ UNCHANGED <<submitDisabled, inflight>>
           ELSE IF password # confirmPassword
           THEN /\ formError' = "Passwords do not match"
                /\ UNCHANGED <<submitDisabled, inflight>>
           ELSE /\ Len(inflight) < MaxInFlight
                /\ formError' = ""
                /\ submitDisabled' = TRUE
                /\ inflight' = Append(inflight, Op("createUser", "form", 0, email, password))
    /\ UNCHANGED <<view, postsContainer, categoriesList, currentUser, rendererVars,
                   authUser, sessionAge, authQueue, storeVars, subVars>>
    /\ Quiet

\* registerUser: createUserWithEmailAndPassword resolves; createUserProfile starts.
CreateUserOk(i) ==
    /\ i \in DOMAIN inflight /\ inflight[i].kind = "createUser"
    /\ UidOf(inflight[i].a) = 0
    /\ LET uid == Len(accounts) + 1
       IN  /\ CanNotify(uid)
           /\ accounts' = Append(accounts, inflight[i].a)
           /\ profiles' = Append(profiles, NoProfile)
           /\ authUser' = uid
           /\ sessionAge' = 0
           /\ authQueue' = Notify(uid)
           /\ inflight' = Replace(inflight, i, [inflight[i] EXCEPT !.kind = "setProfile",
                                                                   !.uid = uid])
    /\ UNCHANGED <<domVars, currentUser, rendererVars, posts, cats, creators, subVars>>
    /\ Quiet

CreateUserCodes(email) ==
    IF UidOf(email) # 0 THEN {"auth/email-already-in-use"}
    ELSE {"auth/invalid-email", "auth/operation-not-allowed", "auth/weak-password",
          "auth/too-many-requests", "auth/network-request-failed", NoCode}

\* registerUser: createUserWithEmailAndPassword rejects with code.
CreateUserFail(i, code) ==
    /\ i \in DOMAIN inflight /\ inflight[i].kind = "createUser"
    /\ code \in CreateUserCodes(inflight[i].a)
    /\ outcome' = Outcome("registerUser", handleFirebaseError(code))
    /\ ShowError(inflight[i], handleFirebaseError(code))
    /\ inflight' = Remove(inflight, i)
    /\ UNCHANGED <<view, postsContainer, categoriesList, currentUser, rendererVars,
                   authUser, sessionAge, authQueue, storeVars, subVars>>

InitialProfileNoLastLogin(email) == [fields |-> {"email", "createdAt"}, email |-> email]

\* The profile document registerUser writes.
InitialProfile(email) == [fields |-> ProfileFields, email |-> email]

\* createUserProfile: setDoc resolves; registerUser returns the user.
SetProfileOk(i) ==
    /\ i \in DOMAIN inflight /\ inflight[i].kind = "setProfile"
    /\ RuleUsersWrite(authUser, inflight[i].uid)
    /\ profiles' = [profiles EXCEPT ![inflight[i].uid] = InitialProfile(inflight[i].a)]
    /\ outcome' = Outcome("registerUser", "ok")
    /\ inflight' = Remove(inflight, i)
    /\ UNCHANGED <<domVars, currentUser, rendererVars, authUser, sessionAge, authQueue, accounts,
                   posts, cats, creators, subVars>>

\* createUserProfile: setDoc rejects; it throws 'Failed to create user profile',
\* an error without a code, which registerUser maps like any other.
SetProfileFail(i) ==
    /\ i \in DOMAIN inflight /\ inflight[i].kind = "setProfile"
    /\ outcome' = Outcome("registerUser", handleFirebaseError(NoCode))
    /\ ShowError(inflight[i], handleFirebaseError(NoCode))
    /\ inflight' = Remove(inflight, i)
    /\ UNCHANGED <<view, postsContainer, categoriesList, currentUser, rendererVars,
                   authUser, sessionAge, authQueue, storeVars, subVars>>

\* ------------------------------------------------------------- sign-in
\* The submit handler of #login-form.
LoginSubmit(emailField, password) ==
    /\ view = "Login" /\ ~submitDisabled
    /\ Len(inflight) < MaxInFlight
    /\ formError' = ""
    /\ submitDisabled' = TRUE
    /\ inflight' = Append(inflight, Op("signIn", "form", 0, trim(emailField), password))
    /\ UNCHANGED <<view, postsContainer, categoriesList, currentUser, rendererVars,
                   authUser, sessionAge, authQueue, storeVars, subVars>>
    /\ Quiet

\* authenticateUser: signInWithEmailAndPassword resolves; updateUserProfile starts.
SignInOk(i) ==
    /\ i \in DOMAIN inflight /\ inflight[i].kind = "signIn"
    /\ UidOf(inflight[i].a) # 0
    /\ LET uid == UidOf(inflight[i].a)
       IN  /\ CanNotify(uid)
           /\ authUser' = uid
           /\ sessionAge' = 0
           /\ authQueue' = Notify(uid)
           /\ inflight' = Replace(inflight, i, [inflight[i] EXCEPT !.kind = "mergeProfile",
                                                                   !.uid = uid])
    /\ UNCHANGED <<domVars, currentUser, rendererVars, storeVars, subVars>>
    /\ Quiet

SignInCodes ==
    {"auth/invalid-email", "auth/user-disabled", "auth/user-not-found",
     "auth/wrong-password", "auth/invalid-credential", "auth/too-many-requests",
     "auth/network-request-failed", NoCode}

SignInFailNavigates(i, code) ==
    /\ i \in DOMAIN inflight /\ inflight[i].kind = "signIn"
    /\ code \in SignInCodes
    /\ outcome' = Outcome("authenticateUser", handleFirebaseError(code))
    /\ RenderAuthPage("Signup")
    /\ inflight' = Detached(Remove(inflight, i))
    /\ UNCHANGED <<currentUser, rendererVars, authUser, sessionAge, authQueue, storeVars, subVars>>

\* authenticateUser: signInWithEmailAndPassword rejects with code.
SignInFail(i, code) ==
    /\ i \in DOMAIN inflight /\ inflight[i].kind = "signIn"
    /\ code \in SignInCodes
    /\ outcome' = Outcome("authenticateUser", handleFirebaseError(code))
    /\ ShowError(inflight[i], handleFirebaseError(code))
    /\ inflight' = Remove(inflight, i)
    /\ UNCHANGED <<view, postsContainer, categoriesList, currentUser, rendererVars,
                   authUser, sessionAge, authQueue, storeVars, subVars>>

MergeProfileSurfaces(i, ok) ==
    /\ i \in DOMAIN inflight /\ inflight[i].kind = "mergeProfile"
    /\ ok => RuleUsersWrite(authUser, inflight[i].uid)
    /\ profiles' = IF ok
                   THEN [profiles EXCEPT ![inflight[i].uid].fields = @ \cup {"lastLogin"}]
                   ELSE profiles
    /\ outcome' = Outcome("authenticateUser", IF ok THEN "ok" ELSE GenericAuth)
    /\ inflight' = Remove(inflight, i)
    /\ UNCHANGED <<domVars, currentUser, rendererVars, authUser, sessionAge, authQueue, accounts,
                   posts, cats, creators, subVars>>

\* updateUserProfile: setDoc(..., {lastLogin}, {merge: true}) resolves (ok) or
\* rejects, which is logged; authenticateUser returns the user either way.
MergeProfile(i, ok) ==
    /\ i \in DOMAIN inflight /\ inflight[i].kind = "mergeProfile"
    /\ ok => RuleUsersWrite(authUser, inflight[i].uid)
    /\ profiles' = IF ok
                   THEN [profiles EXCEPT ![inflight[i].uid].fields = @ \cup {"lastLogin"}]
                   ELSE profiles
    /\ outcome' = Outcome("authenticateUser", "ok")
    /\ inflight' = Remove(inflight, i)
    /\ UNCHANGED <<domVars, currentUser, rendererVars, authUser, sessionAge, authQueue, accounts,
                   posts, cats, creators, subVars>>

\* ------------------------------------------------------------- logout
\* The click handler of #logout-btn: authManager.logout() starts.
LogoutClick ==
    /\ view = "Dashboard"
    /\ Len(inflight) < MaxInFlight
    /\ inflight' = Append(inflight, Op("signOut", "form", currentUser, NoText, NoText))
    /\ UNCHANGED <<domVars, currentUser, rendererVars, authUser, sessionAge, authQueue, storeVars,
                   subVars>>
    /\ Quiet

\* A logout that clears currentUser itself when signOut resolves, before the
\* auth listener has changed the page.
SignOutOkClearsUser(i) ==
    /\ i \in DOMAIN inflight /\ inflight[i].kind = "signOut"
    /\ CanNotify(0)
    /\ authUser' = 0
    /\ sessionAge' = 0
    /\ authQueue' = Notify(0)
    /\ currentUser' = 0
    /\ outcome' = Outcome("logout", "ok")
    /\ inflight' = Remove(inflight, i)
    /\ UNCHANGED <<domVars, rendererVars, storeVars, subVars>>

\* logout: signOut resolves.
SignOutOk(i) ==
    /\ i \in DOMAIN inflight /\ inflight[i].kind = "signOut"
    /\ CanNotify(0)
    /\ authUser' = 0
    /\ sessionAge' = 0
    /\ authQueue' = Notify(0)
    /\ outcome' = Outcome("logout", "ok")
    /\ inflight' = Remove(inflight, i)
    /\ UNCHANGED <<domVars, currentUser, rendererVars, storeVars, subVars>>

SignOutFailClears(i) ==
    /\ i \in DOMAIN inflight /\ inflight[i].kind = "signOut"
    /\ outcome' = Outcome("logout", FailedSignOut)
    /\ RenderAuthPage("Login")
    /\ inflight' = Detached(Remove(inflight, i))
    /\ currentUser' = 0
    /\ UNCHANGED <<rendererVars, authUser, sessionAge, authQueue, storeVars, subVars>>

\* logout: signOut rejects; logout throws 'Failed to sign out' and the click
\* handler forces the login page.
SignOutFail(i) ==
    /\ i \in DOMAIN inflight /\ inflight[i].kind = "signOut"
    /\ outcome' = Outcome("logout", FailedSignOut)
    /\ RenderAuthPage("Login")
    /\ inflight' = Detached(Remove(inflight, i))
    /\ UNCHANGED <<currentUser, rendererVars, authUser, sessionAge, authQueue, storeVars, subVars>>

\* ------------------------------------------------------ category selection
\* refreshFeed: release the current posts query, then open one for the
\* selected category; fail says that the provider throws when it is opened.
RefreshFeedNoRelease(category, fail) ==
    /\ postsUnsubscribe' = IF currentUser = 0 \/ fail THEN postsUnsubscribe
                           ELSE NewSub("posts", category)
    /\ leaked' = IF currentUser = 0 \/ fail THEN leaked
                 ELSE LeakedWith(leaked, postsUnsubscribe)
    /\ UNCHANGED <<categoriesUnsubscribe, apiHandle>>

RefreshFeed(category, fail) ==
    LET released == IF postsUnsubscribe # NoHandle THEN Release(postsUnsubscribe)
                    ELSE postsUnsubscribe
    IN  /\ postsUnsubscribe' = IF currentUser = 0 \/ fail THEN released
                               ELSE NewSub("posts", category)
        /\ leaked' = LeakedWith(leaked, released)
        /\ UNCHANGED <<categoriesUnsubscribe, apiHandle>>

\* The category buttons of the dashboard: #category-all, whose handler passes
\* 'All', and the buttons of #categories-list, whose handler passes their
\* data-category attribute.
Buttons ==
    {[attr |-> All, html |-> AllMessages]}
        \cup {categoriesList[i] : i \in DOMAIN categoriesList}

\* selectCategory(categoryName), from the click of the category button.
SelectCategory(button, fail) ==
    /\ view = "Dashboard"
    /\ button \in Buttons
    /\ LiveTotal < MaxSubs
    /\ selectedCategory' = button.attr
    /\ clickedButton' = button.html
    /\ RefreshFeed(button.attr, fail)
    /\ UNCHANGED <<domVars, currentUser, categories, authUser, sessionAge, authQueue, storeVars,
                   inflight>>
    /\ Quiet

\* ------------------------------------------------------------ createPost
Undefined == <<"undefined">>
\* createPost(content, category = 'General')
defaultCategory(category) == IF category = Undefined THEN General ELSE category

createPostCheckNoAuth(user, content) ==
    IF content = Undefined \/ Len(trim(content)) = 0 THEN EmptyPost ELSE ""

createPostCheckNoTrim(user, content) ==
    IF user = 0 THEN AuthRequiredPost
    ELSE IF content = Undefined \/ Len(content) = 0 THEN EmptyPost
    ELSE ""

\* createPost: the error it throws before any provider call, "" when none.
createPostCheck(user, content) ==
    IF user = 0 THEN AuthRequiredPost
    ELSE IF content = Undefined \/ Len(trim(content)) = 0 THEN EmptyPost
    ELSE ""

\* createPost: postData.
PostData(user, content, category) ==
    [content |-> trim(content), category |-> category, userId |-> user,
     userEmail |-> EmailOf(user)]

\* The category the submit handler of #post-form passes to createPost.
postCategory(selected) == IF selected = All THEN General ELSE selected

\* The submit handler of #post-form.
PostSubmit(contentField) ==
    /\ view = "Dashboard" /\ ~submitDisabled
    /\ Len(contentField) <= MaxContentLen
    /\ LET content == trim(contentField)
           category == postCategory(selectedCategory)
           error == createPostCheck(currentUser, content)
       IN  IF Len(content) = 0
           THEN /\ formError' = "Please enter some content to post"
                /\ UNCHANGED <<submitDisabled, inflight>>
                /\ Quiet
           ELSE IF error # ""
           THEN /\ formError' = error
                /\ outcome' = Outcome("createPost", error)
                /\ UNCHANGED <<submitDisabled, inflight>>
           ELSE /\ Len(inflight) < MaxInFlight
                /\ formError' = ""
                /\ submitDisabled' = TRUE
                /\ inflight' = Append(inflight,
                       Op("addPost", "form", 0, NoText,
                          PostData(currentUser, content, defaultCategory(category))))
                /\ Quiet
    /\ UNCHANGED <<view, postsContainer, categoriesList, currentUser, rendererVars,
                   authUser, sessionAge, authQueue, storeVars, subVars>>

\* A direct call of the gateway's createPost(content, category).
ApiCreatePost(content, category) ==
    /\ LET error == createPostCheck(currentUser, content)
       IN  IF error # ""
           THEN /\ outcome' = Outcome("createPost", error)
                /\ UNCHANGED inflight
           ELSE /\ Len(inflight) < MaxInFlight
                /\ inflight' = Append(inflight,
                       Op("addPost", "api", 0, NoText,
                          PostData(currentUser, content, defaultCategory(category))))
                /\ Quiet
    /\ UNCHANGED <<domVars, currentUser, rendererVars, authUser, sessionAge, authQueue,
                   storeVars, subVars>>

\* The finally block of the post handler, on the button it holds.
PostFinally(op) ==
    IF op.via = "form" /\ ~op.detached
    THEN submitDisabled' = FALSE
    ELSE UNCHANGED submitDisabled

\* The document addDoc stores for postData: the provider assigns the id and
\* resolves the two serverTimestamp() fields.
PostDoc(data, n) ==
    [id |-> n, content |-> data.content, category |-> data.category,
     userId |-> data.userId, userEmail |-> data.userEmail, createdAt |-> n,
     updatedAt |-> n]

AddPostOkOverwrites(i) ==
    /\ i \in DOMAIN inflight /\ inflight[i].kind = "addPost"
    /\ RulePostsCreate(authUser, inflight[i].b)
    /\ LET doc == PostDoc(inflight[i].b, 1)
       IN  /\ posts' = <<doc>>
           /\ creators' = [creators EXCEPT !.posts = <<authUser>>]
           /\ Touch("posts", doc.category)
    /\ outcome' = Outcome("createPost", "ok")
    /\ PostFinally(inflight[i])
    /\ inflight' = Remove(inflight, i)
    /\ UNCHANGED <<view, postsContainer, categoriesList, formError, currentUser,
                   rendererVars, authUser, sessionAge, authQueue, accounts, profiles, cats>>

\* createPost: addDoc resolves.
AddPostOk(i) ==
    /\ i \in DOMAIN inflight /\ inflight[i].kind = "addPost"
    /\ RulePostsCreate(authUser, inflight[i].b)
    /\ Len(posts) < MaxPosts
    /\ LET doc == PostDoc(inflight[i].b, Len(posts) + 1)
       IN  /\ posts' = Append(posts, doc)
           /\ creators' = [creators EXCEPT !.posts = Append(@, authUser)]
           /\ Touch("posts", doc.category)
    /\ outcome' = Outcome("createPost", "ok")
    /\ PostFinally(inflight[i])
    /\ inflight' = Remove(inflight, i)
    /\ UNCHANGED <<view, postsContainer, categoriesList, formError, currentUser,
                   rendererVars, authUser, sessionAge, authQueue, accounts, profiles, cats>>

\* createPost: addDoc rejects; it throws 'Failed to create post'.
AddPostFail(i) ==
    /\ i \in DOMAIN inflight /\ inflight[i].kind = "addPost"
    /\ outcome' = Outcome("createPost", FailedPost)
    /\ ShowError(inflight[i], FailedPost)
    /\ inflight' = Remove(inflight, i)
    /\ UNCHANGED <<view, postsContainer, categoriesList, currentUser, rendererVars,
                   authUser, sessionAge, authQueue, storeVars, subVars>>

\* -------------------------------------------------------- createCategory
createCategoryCheckNoTrim(user, categoryName) ==
    IF user = 0 THEN AuthRequiredCategory
    ELSE IF categoryName = Undefined \/ Len(categoryName) = 0 THEN EmptyCategory
    ELSE ""

\* createCategory: the error it throws before any provider call, "" when none.
createCategoryCheck(user, categoryName) ==
    IF user = 0 THEN AuthRequiredCategory
    ELSE IF categoryName = Undefined \/ Len(trim(categoryName)) = 0 THEN EmptyCategory
    ELSE ""

\* createCategory: categoryData.
CategoryData(user, categoryName) == [name |-> trim(categoryName), createdBy |-> user]

\* The gateway's createCategory(categoryName), from the page or called directly.
CreateCategory(categoryName, via) ==
    LET error == createCategoryCheck(currentUser, categoryName)
    IN  IF error # ""
        THEN /\ outcome' = Outcome("createCategory", error)
             /\ UNCHANGED inflight
        ELSE /\ Len(inflight) < MaxInFlight
             /\ inflight' = Append(inflight,
                    Op("addCategory", via, 0, NoText, CategoryData(currentUser, categoryName)))
             /\ Quiet

\* The click handler of #add-category-btn, the prompt answered with answer.
AddCategoryClick(answer) ==
    /\ view = "Dashboard"
    /\ Len(trim(answer)) # 0
    /\ CreateCategory(trim(answer), "form")
    /\ UNCHANGED <<domVars, currentUser, rendererVars, authUser, sessionAge, authQueue,
                   storeVars, subVars>>

\* A direct call of the gateway's createCategory(categoryName).
ApiCreateCategory(categoryName) ==
    /\ CreateCategory(categoryName, "api")
    /\ UNCHANGED <<domVars, currentUser, rendererVars, authUser, sessionAge, authQueue,
                   storeVars, subVars>>

CategoryDoc(data, n) ==
    [id |-> n, name |-> data.name, createdBy |-> data.createdBy, createdAt |-> n]

\* createCategory: addDoc resolves.
AddCategoryOk(i) ==
    /\ i \in DOMAIN inflight /\ inflight[i].kind = "addCategory"
    /\ RuleCategoriesCreate(authUser, inflight[i].b)
    /\ Len(cats) < MaxCats
    /\ cats' = Append(cats, CategoryDoc(inflight[i].b, Len(cats) + 1))
    /\ creators' = [creators EXCEPT !.categories = Append(@, authUser)]
    /\ Touch("categories", NoText)
    /\ outcome' = Outcome("createCategory", "ok")
    /\ inflight' = Remove(inflight, i)
    /\ UNCHANGED <<domVars, currentUser, rendererVars, authUser, sessionAge, authQueue, accounts,
                   profiles, posts>>

\* createCategory: addDoc rejects; it throws 'Failed to create category'.
AddCategoryFail(i) ==
    /\ i \in DOMAIN inflight /\ inflight[i].kind = "addCategory"
    /\ outcome' = Outcome("createCategory", FailedCategory)
    /\ inflight' = Remove(inflight, i)
    /\ UNCHANGED <<domVars, currentUser, rendererVars, authUser, sessionAge, authQueue,
                   storeVars, subVars>>

\* ---------------------------------------------------- subscription events
\* The posts callback of initializeFeed / refreshFeed: renderPosts(ps).  Without
\* a dashboard there is no #posts-container and renderPosts throws a TypeError.
PostsCallback(ps) ==
    IF view = "Dashboard"
    THEN /\ postsContainer' = renderPosts(ps)
         /\ outcome' = Outcome("postsCallback", "ok")
    ELSE /\ UNCHANGED postsContainer
         /\ outcome' = Outcome("postsCallback", "TypeError")

\* The categories callback of initializeFeed: categories = cs; renderCategories().
\* renderCategories returns when there is no #categories-list.
CategoriesCallback(cs) ==
    /\ categories' = cs
    /\ categoriesList' = IF view = "Dashboard" THEN renderCategories(cs) ELSE categoriesList
    /\ outcome' = Outcome("categoriesCallback", "ok")

\* The callback of a direct caller of subscribeToPosts: it keeps the posts it
\* is called with.
ApiPostsCallback(ps) ==
    /\ outcome' = [of |-> "apiCallback", result |-> "ok", posts |-> ps]
    /\ UNCHANGED postsContainer

\* onSnapshot's next callback of subscribeToPosts, for the live query q.
PostsSnapshot(q) ==
    /\ q \in Queries /\ q.sub.kind = "posts" /\ q.sub.dirty
    /\ RuleRead(authUser)
    /\ SetQuery(q, [q.sub EXCEPT !.dirty = FALSE])
    /\ LET ps == PostsResult(posts, q.sub.category, q.sub.limit)
       IN  IF q.at = "apiHandle" THEN ApiPostsCallback(ps) ELSE PostsCallback(ps)
    /\ UNCHANGED <<view, categoriesList, submitDisabled, formError, currentUser,
                   rendererVars, authUser, sessionAge, authQueue, storeVars, inflight>>

\* onSnapshot's next callback of subscribeToCategories, for the live query q.
CategoriesSnapshot(q) ==
    /\ q \in Queries /\ q.sub.kind = "categories" /\ q.sub.dirty
    /\ RuleRead(authUser)
    /\ SetQuery(q, [q.sub EXCEPT !.dirty = FALSE])
    /\ CategoriesCallback(CategoriesResult(cats))
    /\ UNCHANGED <<view, postsContainer, submitDisabled, formError, currentUser,
                   selectedCategory, clickedButton, authUser, sessionAge, authQueue, storeVars,
                   inflight>>

\* onSnapshot's error callback, for the live query q: callback([]).  The
\* provider ends a query that failed.
SubscriptionError(q) ==
    /\ q \in Queries
    /\ SetQuery(q, [q.sub EXCEPT !.dirty = FALSE, !.state = "failed"])
    /\ IF q.sub.kind = "posts"
       THEN /\ IF q.at = "apiHandle" THEN ApiPostsCallback(<<>>) ELSE PostsCallback(<<>>)
            /\ UNCHANGED <<categories, categoriesList>>
       ELSE /\ CategoriesCallback(<<>>)
            /\ UNCHANGED postsContainer
    /\ UNCHANGED <<view, submitDisabled, formError, currentUser, selectedCategory,
                   clickedButton, authUser, sessionAge, authQueue, storeVars, inflight>>

\* ------------------------------------------------------------------ Next
\* The page as a whole, for one visitor: every handler of the page and every
\* response and event of the provider, with queries that the provider opens.
Next ==
    \/ AuthStateChanged(FALSE, FALSE)
    \/ GoToSignup
    \/ GoToLogin
    \/ \E p, c \in Passwords : SignupSubmit(EmailA, p, c)
    \/ \E i \in DOMAIN inflight : CreateUserOk(i)
    \/ \E i \in DOMAIN inflight, code \in FewCodes : CreateUserFail(i, code)
    \/ \E i \in DOMAIN inflight : SetProfileOk(i)
    \/ \E i \in DOMAIN inflight : SetProfileFail(i)
    \/ LoginSubmit(EmailA, Pw6)
    \/ \E i \in DOMAIN inflight : SignInOk(i)
    \/ \E i \in DOMAIN inflight, code \in FewCodes : SignInFail(i, code)
    \/ \E i \in DOMAIN inflight, ok \in BOOLEAN : MergeProfile(i, ok)
    \/ LogoutClick
    \/ \E i \in DOMAIN inflight : SignOutOk(i)
    \/ \E i \in DOMAIN inflight : SignOutFail(i)
    \/ \E b \in Buttons : SelectCategory(b, FALSE)
    \/ PostSubmit(<<"h", "i">>)
    \/ \E i \in DOMAIN inflight : AddPostOk(i)
    \/ \E i \in DOMAIN inflight : AddPostFail(i)
    \/ AddCategoryClick(CatX)
    \/ \E i \in DOMAIN inflight : AddCategoryOk(i)
    \/ \E i \in DOMAIN inflight : AddCategoryFail(i)
    \/ \E q \in Queries : PostsSnapshot(q)
    \/ \E q \in Queries : CategoriesSnapshot(q)
    \/ \E q \in Queries : SubscriptionError(q)

Spec == Init /\ [][Next]_vars

\* ------------------------------------------------------------ the session
\* A project with one registered account and its profile.
SeededAccount ==
    /\ accounts = <<EmailA>>
    /\ profiles = <<InitialProfile(EmailA)>>

\* A project in use: the account, one category and one post of that category.
SeededStore ==
    /\ SeededAccount
    /\ cats = <<CategoryDoc(CategoryData(1, CatX), 1)>>
    /\ posts = <<PostDoc(PostData(1, <<"h", "i">>, CatX), 1)>>
    /\ creators = [posts |-> <<1>>, categories |-> <<1>>]

InitSession ==
    /\ InitPage
    /\ SeededStore
    /\ authUser = 0
    /\ authQueue = <<0>>

\* Signing in and out of the seeded project, and what the dashboard's queries
\* and category buttons do meanwhile.
NextSession ==
    \/ \E fp, fc \in BOOLEAN : AuthStateChanged(fp, fc)
    \/ GoToSignup
    \/ GoToLogin
    \/ LoginSubmit(EmailA, Pw6)
    \/ \E i \in DOMAIN inflight : SignInOk(i)
    \/ \E i \in DOMAIN inflight, code \in FewCodes : SignInFail(i, code)
    \/ \E i \in DOMAIN inflight, ok \in BOOLEAN : MergeProfile(i, ok)
    \/ LogoutClick
    \/ \E i \in DOMAIN inflight : SignOutOk(i)
    \/ \E i \in DOMAIN inflight : SignOutFail(i)
    \/ \E b \in Buttons, fail \in BOOLEAN : SelectCategory(b, fail)
    \/ \E q \in Queries : PostsSnapshot(q)
    \/ \E q \in Queries : CategoriesSnapshot(q)
    \/ \E q \in Queries : SubscriptionError(q)

SpecSession == InitSession /\ [][NextSession]_vars

\* ------------------------------------------------------------- the writes
\* A returning visitor, signed in or not, of a project that has no category
\* and no post yet, before the provider reports the auth state.
InitWrite ==
    /\ InitPage
    /\ SeededAccount
    /\ cats = <<>>
    /\ posts = <<>>
    /\ creators = NoCreators
    /\ authUser \in {0, 1}
    /\ authQueue = <<authUser>>

ApiContents == {Undefined, <<>>, <<" ">>, <<"h", "i", " ">>}
ApiCategories == {General, Undefined}

\* Creating categories and posts, from the dashboard and through the gateway,
\* and the feed that shows them.
NextWrite ==
    \/ AuthStateChanged(FALSE, FALSE)
    \/ \E b \in Buttons : SelectCategory(b, FALSE)
    \/ \E c \in Contents : PostSubmit(c)
    \/ \E c \in ApiContents, k \in ApiCategories : ApiCreatePost(c, k)
    \/ \E i \in DOMAIN inflight : AddPostOk(i)
    \/ \E i \in DOMAIN inflight : AddPostFail(i)
    \/ \E n \in CatNames : AddCategoryClick(n)
    \/ \E n \in CatNames \cup {Undefined} : ApiCreateCategory(n)
    \/ \E i \in DOMAIN inflight : AddCategoryOk(i)
    \/ \E i \in DOMAIN inflight : AddCategoryFail(i)
    \/ \E q \in Queries : PostsSnapshot(q)
    \/ \E q \in Queries : CategoriesSnapshot(q)

SpecWrite == InitWrite /\ [][NextWrite]_vars

\* ------------------------------------------------------------ the gateway
\* createPost and createCategory called directly, by a caller that is signed
\* in or not, with the dashboard's listeners running when it is.
NextGateway ==
    \/ AuthStateChanged(FALSE, FALSE)
    \/ \E c \in ApiContents, k \in ApiCategories : ApiCreatePost(c, k)
    \/ \E i \in DOMAIN inflight : AddPostOk(i)
    \/ \E i \in DOMAIN inflight : AddPostFail(i)
    \/ \E n \in CatNames \cup {Undefined} : ApiCreateCategory(n)
    \/ \E i \in DOMAIN inflight : AddCategoryOk(i)
    \/ \E i \in DOMAIN inflight : AddCategoryFail(i)
    \/ \E q \in Queries : PostsSnapshot(q)
    \/ \E q \in Queries : CategoriesSnapshot(q)

SpecGateway == InitWrite /\ [][NextGateway]_vars

\* -------------------------------------------------------------- the posts
\* A text one character longer than the textarea takes.
LongContent == [i \in 1..(MaxContentLen + 1) |-> "x"]

\* A project with two registered accounts, visited by the first, signed in or
\* not.
InitPosts ==
    /\ InitPage
    /\ accounts = <<EmailA, EmailB>>
    /\ profiles = <<InitialProfile(EmailA), InitialProfile(EmailB)>>
    /\ cats = <<>>
    /\ posts = <<>>
    /\ creators = NoCreators
    /\ authUser \in {0, 1}
    /\ authQueue = <<authUser>>

\* The provider's identity changes without a request of this page: the user
\* signs out, or another user signs in, in another tab of the browser.
AuthChangedElsewhere(u) ==
    /\ u \in {0} \cup DOMAIN accounts
    /\ u # authUser
    /\ CanNotify(u)
    /\ authUser' = u
    /\ sessionAge' = 0
    /\ authQueue' = Notify(u)
    /\ UNCHANGED <<domVars, currentUser, rendererVars, storeVars, subVars, inflight>>
    /\ Quiet

\* Posts written from the dashboard and through the gateway, and categories
\* written through the gateway, while the signed-in identity may change.  The
\* provider delivers no snapshot here: the feed is not drawn.
NextPosts ==
    \/ AuthStateChanged(FALSE, FALSE)
    \/ \E u \in {0} \cup DOMAIN accounts : AuthChangedElsewhere(u)
    \/ \E c \in {<<"h", "i", " ">>, LongContent} : PostSubmit(c)
    \/ \E c \in {<<"h", "i", " ">>, LongContent}, k \in ApiCategories : ApiCreatePost(c, k)
    \/ \E i \in DOMAIN inflight : AddPostOk(i)
    \/ \E i \in DOMAIN inflight : AddPostFail(i)
    \/ ApiCreateCategory(CatX)
    \/ \E i \in DOMAIN inflight : AddCategoryOk(i)
    \/ \E i \in DOMAIN inflight : AddCategoryFail(i)

SpecPosts == InitPosts /\ [][NextPosts]_vars

\* --------------------------------------------------------------- the feed
\* subscribeToPosts(callback, category = null, limitCount = 50): the limit the
\* query gets, for the arguments after category (none, or the limit).
defaultLimit(args) == IF args = <<>> THEN DefaultLimit ELSE args[1]

\* A direct call of the gateway's subscribeToPosts(callback, category, ...args);
\* fail says that the provider throws when the query is opened.  The caller
\* keeps the handle it gets, one at a time.
ApiSubscribeToPosts(category, args, fail) ==
    /\ ~IsLive(apiHandle)
    /\ IF currentUser = 0
       THEN /\ outcome' = Outcome("subscribeToPosts", AuthRequiredView)
            /\ UNCHANGED subVars
       ELSE IF fail
       THEN /\ outcome' = Outcome("subscribeToPosts", FailedSubscribe)
            /\ UNCHANGED subVars
       ELSE /\ LiveTotal < MaxSubs
            /\ apiHandle' = LimitedSub("posts", category, defaultLimit(args))
            /\ UNCHANGED <<postsUnsubscribe, categoriesUnsubscribe, leaked>>
            /\ outcome' = Outcome("subscribeToPosts", "ok")
    /\ UNCHANGED <<domVars, currentUser, rendererVars, authUser, sessionAge, authQueue,
                   storeVars, inflight>>

\* The caller calls the handle subscribeToPosts returned.
ApiUnsubscribe ==
    /\ apiHandle # NoHandle
    /\ apiHandle' = Release(apiHandle)
    /\ UNCHANGED <<domVars, currentUser, rendererVars, authUser, sessionAge, authQueue,
                   storeVars, postsUnsubscribe, categoriesUnsubscribe, leaked, inflight>>
    /\ Quiet

\* -------------------------------------------------------------- the days
\* A day passes while the provider holds a signed-in identity.  Nothing in the
\* page or in the way it sets up the provider measures the age of a session:
\* the day passes whatever that age is.
Tick ==
    /\ authUser # 0
    /\ sessionAge < MaxDays
    /\ sessionAge' = sessionAge + 1
    /\ UNCHANGED <<domVars, currentUser, rendererVars, authUser, authQueue, storeVars,
                   subVars, inflight>>
    /\ Quiet

\* The page over the days: the visitor of the seeded project signs in, stays,
\* and signs out.
NextDays ==
    \/ AuthStateChanged(FALSE, FALSE)
    \/ LoginSubmit(EmailA, Pw6)
    \/ \E i \in DOMAIN inflight : SignInOk(i)
    \/ \E i \in DOMAIN inflight : SignInFail(i, "auth/invalid-credential")
    \/ \E i \in DOMAIN inflight : MergeProfile(i, TRUE)
    \/ LogoutClick
    \/ \E i \in DOMAIN inflight : SignOutOk(i)
    \/ \E i \in DOMAIN inflight : SignOutFail(i)
    \/ Tick

SpecDays == InitSession /\ [][NextDays]_vars

\* ------------------------------------------------------------ the links
\* The texts linkifyText is called with: a scheme, a letter, a dot, a space and
\* a quote, in every order.
LinkChars == {"http://", "https://", "a", ".", " ", "'"}
LinkTexts == UNION {[1..n -> LinkChars] : n \in 0..MaxTextLen}

\* A direct call of window.pageRenderer.linkifyText(text).
ApiLinkifyText(text) ==
    /\ outcome' = [of |-> "linkifyText", result |-> linkifyText(text), text |-> text]
    /\ UNCHANGED <<domVars, currentUser, rendererVars, authUser, sessionAge, authQueue, storeVars,
                   subVars, inflight>>

NextLinks == \E text \in LinkTexts : ApiLinkifyText(text)

SpecLinks == Init /\ [][NextLinks]_vars

\* ---------------------------------------------------- one post, rendered
\* The contents renderPosts is given: texts with markup characters and URLs.
PostChars == {"http://", "a", "<", "&", ".", " "}
PostTexts == UNION {[1..n -> PostChars] : n \in 0..MaxTextLen}

\* renderPosts, for the content of one post: the escaped and linkified content
\* it inserts, and the URLs it generates preview cards for.
RenderPostContent(text) ==
    /\ outcome' = [of |-> "renderPosts", result |-> postContentHtml([content |-> text]),
                   text |-> text, urls |-> extractUrls(text)]
    /\ UNCHANGED <<domVars, currentUser, rendererVars, authUser, sessionAge, authQueue, storeVars,
                   subVars, inflight>>

NextPreviews == \E text \in PostTexts : RenderPostContent(text)

SpecPreviews == Init /\ [][NextPreviews]_vars

\* ------------------------------------------------------ the access policy
\* Any client of the project sends requests to the database, signed in as one
\* of the accounts or not at all (0); the rules decide each request.
Requesters == {0, 1, 2}
Collections == {"posts", "categories"}

Docs(coll) == IF coll = "posts" THEN posts ELSE cats

Decision(allowed) == IF allowed THEN "allowed" ELSE "denied"

\* The stored collection coll becomes docs, created by who; every live query
\* of the collection has a snapshot to deliver.
Store(coll, docs, who, category) ==
    /\ posts' = IF coll = "posts" THEN docs ELSE posts
    /\ cats' = IF coll = "categories" THEN docs ELSE cats
    /\ creators' = [creators EXCEPT ![coll] = who]
    /\ Touch(coll, category)

\* The id the provider gives a new document of docs.
FreeId(docs) ==
    CHOOSE n \in 1..(Len(docs) + 1) :
        /\ \A j \in DOMAIN docs : docs[j].id # n
        /\ \A m \in 1..(n - 1) : \E j \in DOMAIN docs : docs[j].id = m

\* The document a client sends: a post or a category attributed to owner.
RequestData(coll, owner) ==
    IF coll = "posts" THEN PostData(owner, <<"h", "i">>, General)
    ELSE CategoryData(owner, CatX)

RuleCreate(coll, auth, data) ==
    IF coll = "posts" THEN RulePostsCreate(auth, data) ELSE RuleCategoriesCreate(auth, data)

RuleUpdateDelete(coll, auth, resource) ==
    IF coll = "posts" THEN RulePostsUpdateDelete(auth, resource)
    ELSE RuleCategoriesUpdateDelete(auth, resource)

\* getDocs / onSnapshot on a collection.
ClientRead(auth, coll) ==
    /\ coll \in Collections
    /\ outcome' = Outcome("read", Decision(RuleRead(auth)))
    /\ UNCHANGED <<domVars, currentUser, rendererVars, authUser, sessionAge, authQueue, storeVars,
                   subVars, inflight>>

\* addDoc on a collection, the document attributed to owner.
ClientCreate(auth, coll, owner) ==
    /\ coll \in Collections
    /\ Len(Docs(coll)) < (IF coll = "posts" THEN MaxPosts ELSE MaxCats)
    /\ LET data == RequestData(coll, owner)
           allowed == RuleCreate(coll, auth, data)
           n == FreeId(Docs(coll))
           doc == IF coll = "posts" THEN PostDoc(data, n) ELSE CategoryDoc(data, n)
       IN  /\ IF allowed
              THEN Store(coll, Append(Docs(coll), doc), Append(creators[coll], auth),
                         IF coll = "posts" THEN doc.category ELSE NoText)
              ELSE UNCHANGED <<posts, cats, creators, subVars>>
           /\ outcome' = Outcome("create", Decision(allowed))
    /\ UNCHANGED <<domVars, currentUser, rendererVars, authUser, sessionAge, authQueue, accounts,
                   profiles, inflight>>

\* updateDoc on the i-th stored document: the fields sent attribute it to owner.
ClientUpdate(auth, coll, i, owner) ==
    /\ coll \in Collections
    /\ i \in DOMAIN Docs(coll)
    /\ LET resource == Docs(coll)[i]
           allowed == RuleUpdateDelete(coll, auth, resource)
           doc == IF coll = "posts"
                  THEN [resource EXCEPT !.userId = owner, !.userEmail = EmailOf(owner)]
                  ELSE [resource EXCEPT !.createdBy = owner]
       IN  /\ IF allowed
              THEN Store(coll, [Docs(coll) EXCEPT ![i] = doc], creators[coll],
                         IF coll = "posts" THEN doc.category ELSE NoText)
              ELSE UNCHANGED <<posts, cats, creators, subVars>>
           /\ outcome' = Outcome("update", Decision(allowed))
    /\ UNCHANGED <<domVars, currentUser, rendererVars, authUser, sessionAge, authQueue, accounts,
                   profiles, inflight>>

\* deleteDoc on the i-th stored document.
ClientDelete(auth, coll, i) ==
    /\ coll \in Collections
    /\ i \in DOMAIN Docs(coll)
    /\ LET resource == Docs(coll)[i]
           allowed == RuleUpdateDelete(coll, auth, resource)
       IN  /\ IF allowed
              THEN Store(coll, Remove(Docs(coll), i), Remove(creators[coll], i),
                         IF coll = "posts" THEN resource.category ELSE NoText)
              ELSE UNCHANGED <<posts, cats, creators, subVars>>
           /\ outcome' = Outcome("delete", Decision(allowed))
    /\ UNCHANGED <<domVars, currentUser, rendererVars, authUser, sessionAge, authQueue, accounts,
                   profiles, inflight>>

\* getDoc on users/{uid}.
ClientReadUser(auth, uid) ==
    /\ uid \in DOMAIN accounts
    /\ outcome' = Outcome("readUser", Decision(RuleUsersRead(auth, uid)))
    /\ UNCHANGED <<domVars, currentUser, rendererVars, authUser, sessionAge, authQueue, storeVars,
                   subVars, inflight>>

\* setDoc on users/{uid}.
ClientWriteUser(auth, uid) ==
    /\ uid \in DOMAIN accounts
    /\ LET allowed == RuleUsersWrite(auth, uid)
       IN  /\ profiles' = IF allowed
                          THEN [profiles EXCEPT ![uid] = InitialProfile(EmailOf(uid))]
                          ELSE profiles
           /\ outcome' = Outcome("writeUser", Decision(allowed))
    /\ UNCHANGED <<domVars, currentUser, rendererVars, authUser, sessionAge, authQueue, accounts,
                   posts, cats, creators, subVars, inflight>>

\* A project with two accounts whose profiles are not written yet, and an
\* empty database.
InitRules ==
    /\ InitPage
    /\ authUser = 0
    /\ authQueue = <<0>>
    /\ accounts = <<EmailA, EmailB>>
    /\ profiles = <<NoProfile, NoProfile>>
    /\ posts = <<>>
    /\ cats = <<>>
    /\ creators = NoCreators

NextRules ==
    \/ \E auth \in Requesters, coll \in Collections : ClientRead(auth, coll)
    \/ \E auth \in Requesters, coll \in Collections, owner \in 1..2 :
          ClientCreate(auth, coll, owner)
    \/ \E auth \in Requesters, coll \in Collections, i \in 1..MaxPosts, owner \in 1..2 :
          ClientUpdate(auth, coll, i, owner)
    \/ \E auth \in Requesters, coll \in Collections, i \in 1..MaxPosts :
          ClientDelete(auth, coll, i)
    \/ \E auth \in Requesters, uid \in 1..2 : ClientReadUser(auth, uid)
    \/ \E auth \in Requesters, uid \in 1..2 : ClientWriteUser(auth, uid)

SpecRules == InitRules /\ [][NextRules]_vars

\* ----------------------------------------------------- the feed, watched
\* A project with two accounts and three posts, two of them of category X,
\* visited by the first account, signed in.
InitFeed ==
    /\ InitPage
    /\ accounts = <<EmailA, EmailB>>
    /\ profiles = <<InitialProfile(EmailA), InitialProfile(EmailB)>>
    /\ cats = <<>>
    /\ posts = <<[PostDoc(PostData(1, <<"h", "i">>, CatX), 1) EXCEPT !.userEmail = EmailA],
                 [PostDoc(PostData(1, <<"h", "i">>, General), 2) EXCEPT !.userEmail = EmailA],
                 [PostDoc(PostData(2, <<"h", "i">>, CatX), 3) EXCEPT !.userEmail = EmailB]>>
    /\ creators = [posts |-> <<1, 1, 2>>, categories |-> <<>>]
    /\ authUser = 1
    /\ authQueue = <<1>>

\* The posts queries of the dashboard and of a direct caller, while the
\* clients of the project rewrite and delete posts.
NextFeed ==
    \/ AuthStateChanged(FALSE, FALSE)
    \/ \E c \in {NoText, All, CatX}, args \in {<<>>, <<1>>, <<2>>}, fail \in BOOLEAN :
          ApiSubscribeToPosts(c, args, fail)
    \/ ApiUnsubscribe
    \/ \E q \in Queries : PostsSnapshot(q)
    \/ \E q \in Queries : SubscriptionError(q)
    \/ \E auth, owner \in 1..2, i \in DOMAIN posts : ClientUpdate(auth, "posts", i, owner)
    \/ \E auth \in 1..2, i \in DOMAIN posts : ClientDelete(auth, "posts", i)

SpecFeed == InitFeed /\ [][NextFeed]_vars

\* -------------------------------------------------------- the categories
\* What createCategory is called with: nothing, the empty text, a blank, two
\* names, and the first name with blanks around it.
CategoryNames == {Undefined, <<>>, <<" ">>, CatX, <<" ", "X", " ">>, CatMarkup}

\* Categories created from the dashboard and through the gateway, by a caller
\* that is signed in or not.
NextCategories ==
    \/ AuthStateChanged(FALSE, FALSE)
    \/ \E n \in CategoryNames \ {Undefined} : AddCategoryClick(n)
    \/ \E n \in CategoryNames : ApiCreateCategory(n)
    \/ \E i \in DOMAIN inflight : AddCategoryOk(i)
    \/ \E i \in DOMAIN inflight : AddCategoryFail(i)
    \/ \E q \in Queries : CategoriesSnapshot(q)

SpecCategories == InitWrite /\ [][NextCategories]_vars

\* ---------------------------------------------------------- the newcomer
\* The page of the seeded project, used by its registered user, who may select
\* a category and log out, and then by a visitor who signs up.
NextNewcomer ==
    \/ AuthStateChanged(FALSE, FALSE)
    \/ GoToSignup
    \/ LoginSubmit(EmailA, Pw6)
    \/ \E i \in DOMAIN inflight : SignInOk(i)
    \/ \E i \in DOMAIN inflight : MergeProfile(i, TRUE)
    \/ LogoutClick
    \/ \E i \in DOMAIN inflight : SignOutOk(i)
    \/ \E b \in Buttons : SelectCategory(b, FALSE)
    \/ \E q \in Queries : CategoriesSnapshot(q)
    \/ \E q \in Queries : SubscriptionError(q)
    \/ SignupSubmit(EmailB, Pw6, Pw6)
    \/ \E i \in DOMAIN inflight : CreateUserOk(i)
    \/ \E i \in DOMAIN inflight : SetProfileOk(i)

SpecNewcomer == InitSession /\ [][NextNewcomer]_vars

\* ------------------------------------------------------------ the sign-up
\* What a visitor can type into #email: nothing, no "@", no dot, an empty
\* local part or domain part, a second "@", whitespace inside and around, and
\* addresses of the form local@domain.tld.
SignupEmails ==
    {<<>>, <<"a">>, <<"a", "@", "a">>, <<"a", ".", "a">>,
     <<"@", "a", ".", "a">>, <<"a", "@", ".", "a">>, <<"a", "@", "a", ".">>,
     <<"a", "@", "@", "a", ".", "a">>, <<"a", "@", "a", ".", "a", "@">>,
     <<"a", " ", "@", "a", ".", "a">>, <<"a", "@", "a", " ", ".", "a">>,
     <<" ", "a", "@", "a", ".", "a", " ">>, <<"a", "@", "a", ".", "a">>,
     <<"a", ".", "a", "@", "a", ".", "a", ".", "a">>}

\* The sign-up form on an empty project, with every email a visitor can type.
NextSignup ==
    \/ AuthStateChanged(FALSE, FALSE)
    \/ GoToSignup
    \/ GoToLogin
    \/ \E e \in SignupEmails, p, c \in Passwords : SignupSubmit(e, p, c)
    \/ \E i \in DOMAIN inflight : CreateUserOk(i)
    \/ \E i \in DOMAIN inflight, code \in FewCodes : CreateUserFail(i, code)
    \/ \E i \in DOMAIN inflight : SetProfileOk(i)
    \/ \E i \in DOMAIN inflight : SetProfileFail(i)

SpecSignup == Init /\ [][NextSignup]_vars

\* ------------------------------------------------------------- the errors
\* Signing up and in on an empty project, with every error the provider can
\* answer with.
NextErrors ==
    \/ AuthStateChanged(FALSE, FALSE)
    \/ GoToSignup
    \/ GoToLogin
    \/ SignupSubmit(EmailA, Pw6, Pw6)
    \/ \E i \in DOMAIN inflight : CreateUserOk(i)
    \/ \E i \in DOMAIN inflight, code \in ErrorCodes : CreateUserFail(i, code)
    \/ \E i \in DOMAIN inflight : SetProfileOk(i)
    \/ \E i \in DOMAIN inflight : SetProfileFail(i)
    \/ LoginSubmit(EmailA, Pw6)
    \/ \E i \in DOMAIN inflight : SignInOk(i)
    \/ \E i \in DOMAIN inflight, code \in ErrorCodes : SignInFail(i, code)
    \/ \E i \in DOMAIN inflight : MergeProfile(i, TRUE)

SpecErrors == Init /\ [][NextErrors]_vars

\* ---------------------------------------------------------- registration
\* Signing up, in and out on an empty project.
NextRegister ==
    \/ AuthStateChanged(FALSE, FALSE)
    \/ GoToSignup
    \/ GoToLogin
    \/ \E e \in Emails, p, c \in Passwords : SignupSubmit(e, p, c)
    \/ \E i \in DOMAIN inflight : CreateUserOk(i)
    \/ \E i \in DOMAIN inflight, code \in FewCodes : CreateUserFail(i, code)
    \/ \E i \in DOMAIN inflight : SetProfileOk(i)
    \/ \E i \in DOMAIN inflight : SetProfileFail(i)
    \/ \E e \in Emails : LoginSubmit(e, Pw6)
    \/ \E i \in DOMAIN inflight : SignInOk(i)
    \/ \E i \in DOMAIN inflight, code \in FewCodes : SignInFail(i, code)
    \/ \E i \in DOMAIN inflight, ok \in BOOLEAN : MergeProfile(i, ok)
    \/ LogoutClick
    \/ \E i \in DOMAIN inflight : SignOutOk(i)
    \/ \E i \in DOMAIN inflight : SignOutFail(i)

SpecRegister == Init /\ [][NextRegister]_vars

\* ================================================================ claims

\* C1: when a signed-in user logs out, the dashboard's posts and categories
\* subscriptions are released before the view changes from Dashboard to Login:
\* once the auth-state signal of the logout has swapped the view, no
\* subscription opened by the page is live.
C1_LogoutReleasesSubscriptions ==
    [][(view = "Dashboard" /\ currentUser # 0 /\ view' = "Login" /\ currentUser' = 0)
          => LiveTotal' = 0]_vars

\* C2: in every reachable state at most one posts subscription and at most one
\* categories subscription opened by the page are live.
C2_AtMostOneLivePerKind == LiveCount("posts") <= 1 /\ LiveCount("categories") <= 1

\* The filter the claim expects of the posts query for a selected category.
ExpectedFilter(selected) == IF selected = All THEN NoText ELSE selected

\* C3 (as claimed): on a displayed dashboard whose posts subscription is the
\* one live posts subscription, every category selection leaves exactly one
\* posts subscription live, a new one filtered by the selected category.
C3_SelectionKeepsOneLive ==
    [][\A b \in Buttons, fail \in BOOLEAN :
          (/\ SelectCategory(b, fail)
           /\ IsLive(postsUnsubscribe) /\ LiveCount("posts") = 1)
          => /\ LiveCount("posts")' = 1
             /\ IsLive(postsUnsubscribe')
             /\ postsFilter(postsUnsubscribe'.category) = ExpectedFilter(b.attr)]_vars

\* C3 (amended): on a displayed dashboard whose posts subscription is the one
\* live posts subscription, every category selection releases that
\* subscription and then opens a new one filtered by the selected category;
\* when the provider opens the new query it is the one live posts subscription,
\* and when the provider throws, no posts subscription is live and the
\* renderer keeps the released handle.
C3_SelectionSwapsSubscription ==
    [][\A b \in Buttons, fail \in BOOLEAN :
          (/\ SelectCategory(b, fail)
           /\ IsLive(postsUnsubscribe) /\ LiveCount("posts") = 1)
          => /\ leaked' = leaked
             /\ IF fail
                THEN /\ LiveCount("posts")' = 0
                     /\ postsUnsubscribe' = Release(postsUnsubscribe)
                ELSE /\ LiveCount("posts")' = 1
                     /\ IsLive(postsUnsubscribe')
                     /\ postsUnsubscribe'.dirty
                     /\ postsFilter(postsUnsubscribe'.category) = ExpectedFilter(b.attr)]_vars

C3_Witness ==
    /\ view = "Dashboard"
    /\ selectedCategory = CatX
    /\ postsUnsubscribe = NewSub("posts", CatX)
    /\ LiveCount("posts") = 1

\* Text that holds no markup character of its own.
NoRawMarkup(html) == \A i \in DOMAIN html : html[i] \notin {"<", ">"}

\* C4: every user-supplied string the renderer inserts into the page (post
\* content, the category shown on a post, the category names of the sidebar)
\* is HTML-escaped: the inserted text holds no raw '<' or '>'.
C4_RenderedTextEscaped ==
    /\ \A i \in DOMAIN postsContainer.items :
          /\ NoRawMarkup(postsContainer.items[i].content)
          /\ NoRawMarkup(postsContainer.items[i].category)
    /\ \A i \in DOMAIN categoriesList : NoRawMarkup(categoriesList[i].html)

\* C5: createPost and createCategory called while currentUser is null fail
\* with their authentication-required error whatever the arguments, issue no
\* provider request and leave the posts and categories collections unchanged.
C5_UnauthenticatedWritesRejected ==
    [][/\ \A c \in ApiContents, k \in ApiCategories :
             (ApiCreatePost(c, k) /\ currentUser = 0)
             => /\ outcome' = Outcome("createPost", AuthRequiredPost)
                /\ UNCHANGED <<inflight, posts, cats>>
       /\ \A n \in CatNames \cup {Undefined} :
             (ApiCreateCategory(n) /\ currentUser = 0)
             => /\ outcome' = Outcome("createCategory", AuthRequiredCategory)
                /\ UNCHANGED <<inflight, posts, cats>>]_vars

C5_Witness ==
    /\ currentUser = 0
    /\ outcome = Outcome("createPost", AuthRequiredPost)
    /\ inflight = <<>>

\* Content that is missing, empty or only whitespace.
Blank(content) == content = Undefined \/ trim(content) = NoText

\* C6 (as claimed): createPost with blank content always fails with the
\* content-validation error and makes no provider call; no post is persisted.
C6_BlankContentFailsValidation ==
    [][\A c \in ApiContents, k \in ApiCategories :
          (ApiCreatePost(c, k) /\ Blank(c))
          => /\ outcome' = Outcome("createPost", EmptyPost)
             /\ UNCHANGED <<inflight, posts>>]_vars

\* C6 (amended): createPost with blank content always fails and makes no
\* provider call, and no post is persisted; the error is the content-validation
\* error when a user is authenticated and the authentication-required error
\* when none is.
C6_BlankContentRejected ==
    [][\A c \in ApiContents, k \in ApiCategories :
          (ApiCreatePost(c, k) /\ Blank(c))
          => /\ outcome' = Outcome("createPost",
                                   IF currentUser = 0 THEN AuthRequiredPost ELSE EmptyPost)
             /\ UNCHANGED <<inflight, posts>>]_vars

C6_Witness ==
    /\ currentUser # 0
    /\ outcome = Outcome("createPost", EmptyPost)
    /\ inflight = <<>>

\* C7: a post submitted from the dashboard is stored with category 'General'
\* when 'All messages' is the selected button, and with category X when the
\* button of a category named X is.
C7_PostCategoryFollowsSelection ==
    [][\A c \in Contents :
          (PostSubmit(c) /\ Len(inflight') > Len(inflight))
          => inflight'[Len(inflight')].b.category =
                 IF clickedButton = AllMessages THEN General ELSE clickedButton]_vars

\* A step of the auth-state listener, and a click on a navigation button.
AuthSignal == \E fp, fc \in BOOLEAN : AuthStateChanged(fp, fc)
Navigation == GoToSignup \/ GoToLogin
FailedLogout == \E i \in DOMAIN inflight : SignOutFail(i)

\* C8 (as claimed): the view changes only through an auth-state signal or a
\* Login/Signup navigation button.
C8_ViewChangesBySignalOrNavigation ==
    [][view' # view => AuthSignal \/ Navigation]_vars

\* C8 (amended): the view changes only through an auth-state signal (signed in
\* leads to Dashboard, signed out to Login), a Login/Signup navigation button,
\* or a failed logout, whose handler forces the Login view; a failed sign-in
\* or sign-up never changes the view.
C8_ViewChangesBySignalNavigationOrFailedLogout ==
    [][/\ view' # view => AuthSignal \/ Navigation \/ FailedLogout
       /\ (AuthSignal /\ view' # view)
              => view' = IF Head(authQueue) # 0 THEN "Dashboard" ELSE "Login"
       /\ FailedLogout => view' = "Login"]_vars

C8_Witness ==
    /\ view = "Login"
    /\ currentUser # 0
    /\ outcome = Outcome("logout", FailedSignOut)

\* C9: when a live posts or categories subscription reports a query error, the
\* callback runs with an empty list and throws nothing, and the feed of a
\* failed posts query shows the 'no posts' state.
C9_SubscriptionErrorShowsEmptyFeed ==
    [][\A q \in Queries :
          SubscriptionError(q)
          => /\ outcome'.result = "ok"
             /\ q.sub.kind = "posts" => postsContainer' = renderPosts(<<>>)
             /\ q.sub.kind = "categories" => categories' = <<>>]_vars

\* C10: registerUser creates the identity before it writes the profile, and
\* whenever it succeeds the users collection holds, under the new identity's
\* id, a profile whose fields are exactly email (the given one), createdAt and
\* lastLogin.
C10_RegisterWritesProfile ==
    [][outcome' = Outcome("registerUser", "ok")
          => \E i \in DOMAIN inflight :
                /\ inflight[i].kind = "setProfile"
                /\ Len(inflight') = Len(inflight) - 1
                /\ LET uid == inflight[i].uid
                       email == inflight[i].a
                   IN  /\ uid \in DOMAIN accounts /\ accounts[uid] = email
                       /\ profiles'[uid].fields = {"email", "createdAt", "lastLogin"}
                       /\ profiles'[uid].email = email]_vars

C10_Witness ==
    /\ outcome = Outcome("registerUser", "ok")
    /\ \E u \in DOMAIN profiles :
          /\ profiles[u].fields = {"email", "createdAt", "lastLogin"}
          /\ profiles[u].email = accounts[u]

\* The table of the provider's error codes the claim names.
ErrorTable ==
    [code \in {"auth/email-already-in-use", "auth/invalid-email",
               "auth/operation-not-allowed", "auth/weak-password", "auth/user-disabled",
               "auth/user-not-found", "auth/wrong-password", "auth/invalid-credential",
               "auth/too-many-requests"} |->
        CASE code = "auth/email-already-in-use" -> "An account with this email already exists"
          [] code = "auth/invalid-email" -> "Please enter a valid email address"
          [] code = "auth/operation-not-allowed" -> "Email/password accounts are not enabled"
          [] code = "auth/weak-password" -> "Password should be at least 6 characters"
          [] code = "auth/user-disabled" -> "This account has been disabled"
          [] code = "auth/user-not-found" -> "No account found with this email"
          [] code = "auth/wrong-password" -> "Incorrect password"
          [] code = "auth/invalid-credential" -> "Invalid email or password"
          [] code = "auth/too-many-requests" ->
                 "Too many failed attempts. Please try again later"]

MessageOf(code) ==
    IF code \in DOMAIN ErrorTable THEN ErrorTable[code]
    ELSE "Authentication failed. Please try again"

\* C11: whenever registerUser or authenticateUser fails, the message of its
\* error is the table's message of the provider's error code; an unknown code,
\* a missing code and a failed profile write give the generic message; and
\* these calls fail in no other way.
C11_ErrorMessageFromTable ==
    [][/\ \A i \in DOMAIN inflight, code \in ErrorCodes :
             /\ CreateUserFail(i, code) => outcome' = Outcome("registerUser", MessageOf(code))
             /\ SignInFail(i, code) => outcome' = Outcome("authenticateUser", MessageOf(code))
       /\ \A i \in DOMAIN inflight :
             SetProfileFail(i) => outcome' = Outcome("registerUser", MessageOf(NoCode))
       /\ (outcome'.of \in {"registerUser", "authenticateUser"} /\ outcome'.result # "ok")
             => \E i \in DOMAIN inflight :
                   \/ SetProfileFail(i)
                   \/ \E code \in ErrorCodes : CreateUserFail(i, code) \/ SignInFail(i, code)]_vars

\* registerUser failed on the profile write: the identity exists, its profile
\* does not, and the error is the generic one.
C11_Witness ==
    /\ outcome = Outcome("registerUser", "Authentication failed. Please try again")
    /\ \E u \in DOMAIN accounts : profiles[u] = NoProfile

\* C12: once the provider's sign-in has succeeded, authenticateUser ends with
\* success for the signed-in user whether the update of lastLogin succeeds or
\* fails; a failed update changes no profile and shows no error, and
\* authenticateUser fails only when the sign-in itself is rejected.
C12_SignInSurvivesProfileUpdateFailure ==
    [][/\ \A i \in DOMAIN inflight :
             SignInOk(i) => /\ inflight'[i].kind = "mergeProfile"
                            /\ inflight'[i].uid = authUser'
                            /\ authUser' # 0 /\ accounts[authUser'] = inflight[i].a
       /\ \A i \in DOMAIN inflight, ok \in BOOLEAN :
             MergeProfile(i, ok)
             => /\ outcome' = Outcome("authenticateUser", "ok")
                /\ formError' = formError
                /\ ~ok => profiles' = profiles
       /\ (outcome'.of = "authenticateUser" /\ outcome'.result # "ok")
             => \E i \in DOMAIN inflight : inflight[i].kind = "signIn"]_vars

\* authenticateUser has returned the user although the profile, which the
\* failed registration left without a document, got no lastLogin.
C12_Witness ==
    /\ outcome = Outcome("authenticateUser", "ok")
    /\ authUser # 0
    /\ profiles[authUser] = NoProfile

\* C13: when the provider's sign-out fails, logout fails with 'Failed to sign
\* out' and the session is unchanged: currentUser keeps its value and the
\* provider's identity stays signed in, with no auth-state signal.
C13_FailedSignOutKeepsSession ==
    [][\A i \in DOMAIN inflight :
          SignOutFail(i)
          => /\ outcome' = Outcome("logout", "Failed to sign out")
             /\ currentUser' = currentUser
             /\ authUser' = authUser /\ authQueue' = authQueue]_vars

C13_Witness ==
    /\ outcome = Outcome("logout", "Failed to sign out")
    /\ currentUser # 0
    /\ authUser = currentUser
    /\ authQueue = <<>>

\* An email is well formed when it holds no whitespace and exactly one "@",
\* with a local part before it and, after it, a domain of two non-empty parts
\* around a dot.
WellFormed(email) ==
    /\ \A i \in DOMAIN email : email[i] \notin {" ", "\n"}
    /\ Cardinality({i \in DOMAIN email : email[i] = "@"}) = 1
    /\ LET at == CHOOSE i \in DOMAIN email : email[i] = "@"
       IN  /\ at > 1
           /\ \E dot \in (at + 1)..Len(email) :
                 email[dot] = "." /\ dot > at + 1 /\ dot < Len(email)

\* C14: a sign-up submission whose email (as read from the field) is
\* malformed, whose password is shorter than 6 characters, or whose
\* confirmation differs from the password shows an inline error and makes no
\* provider call: no request starts and no identity or profile is created.
C14_SignupValidatedBeforeProvider ==
    [][\A e \in SignupEmails \cup Emails, p, c \in Passwords :
          (/\ SignupSubmit(e, p, c)
           /\ (~WellFormed(trim(e)) \/ Len(p) < 6 \/ p # c))
          => /\ formError' # ""
             /\ ~submitDisabled'
             /\ UNCHANGED <<inflight, accounts, profiles, authUser, sessionAge, authQueue>>]_vars

C14_Witness ==
    /\ view = "Signup"
    /\ formError = "Passwords do not match"
    /\ inflight = <<>>
    /\ accounts = <<>>

\* C15: every post document persisted through createPost has content that is
\* trimmed, non-empty and at most 500 characters long, and a category that is
\* a string.
C15_PersistedPostsWellFormed ==
    \A i \in DOMAIN posts :
        /\ posts[i].content = trim(posts[i].content)
        /\ Len(posts[i].content) >= 1
        /\ Len(posts[i].content) <= 500
        /\ posts[i].category # Undefined

\* The request a step has started, when it has started one.
Started(kind) ==
    /\ Len(inflight') = Len(inflight) + 1
    /\ inflight'[Len(inflight')].kind = kind

\* C17: every post and category document written carries as userId /
\* createdBy the id of the user who was authenticated when createPost /
\* createCategory was called (and a post that user's email), and that user is
\* the one the provider knows as signed in when the document is written, also
\* when the signed-in identity changes while the write is in flight.
C17_DocumentsCarryTheirCreator ==
    [][/\ Started("addPost")
             => LET data == inflight'[Len(inflight')].b
                IN  /\ currentUser # 0
                    /\ data.userId = currentUser
                    /\ data.userEmail = accounts[currentUser]
       /\ Started("addCategory")
             => /\ currentUser # 0
                /\ inflight'[Len(inflight')].b.createdBy = currentUser
       /\ \A i \in DOMAIN inflight :
             /\ AddPostOk(i)
                => LET doc == posts'[Len(posts')]
                   IN  /\ doc.userId = inflight[i].b.userId
                       /\ doc.userEmail = inflight[i].b.userEmail
                       /\ doc.userId = authUser /\ authUser # 0
             /\ AddCategoryOk(i)
                => LET doc == cats'[Len(cats')]
                   IN  /\ doc.createdBy = inflight[i].b.createdBy
                       /\ doc.createdBy = authUser /\ authUser # 0]_vars

\* A post is stored, and a later write of the same user is in flight while
\* the provider knows another identity, or none, as signed in.
C17_Witness ==
    /\ posts # <<>>
    /\ \E i \in DOMAIN inflight :
          /\ inflight[i].kind = "addPost"
          /\ inflight[i].b.userId = posts[1].userId
          /\ inflight[i].b.userId # authUser

\* The rules allowed the request of the step.
Allowed == outcome.result = "allowed"

\* The field of a stored document that names its owner.
OwnerOf(coll, doc) == IF coll = "posts" THEN doc.userId ELSE doc.createdBy

\* C16: under the shipped access policy any authenticated user may read any
\* post or category; a post or category is created only by an authenticated
\* requester whose id is the document's userId / createdBy; a post or category
\* is updated or deleted only by the user who created it; users/{id} is read
\* or written only by the user with that id; every request of an
\* unauthenticated requester is denied.
C16_AccessPolicy ==
    [][\A auth \in Requesters :
          /\ \A coll \in Collections :
                /\ ClientRead(auth, coll) => (Allowed' <=> auth # 0)
                /\ \A owner \in 1..2 :
                      ClientCreate(auth, coll, owner) /\ Allowed'
                         => auth # 0 /\ auth = owner
                /\ \A i \in DOMAIN Docs(coll) :
                      /\ \A owner \in 1..2 :
                            ClientUpdate(auth, coll, i, owner) /\ Allowed'
                               => auth # 0 /\ auth = creators[coll][i]
                      /\ ClientDelete(auth, coll, i) /\ Allowed'
                            => auth # 0 /\ auth = creators[coll][i]
          /\ \A uid \in 1..2 :
                (ClientReadUser(auth, uid) \/ ClientWriteUser(auth, uid)) /\ Allowed'
                   => auth # 0 /\ auth = uid
          /\ auth = 0
                => \A coll \in Collections, uid, owner \in 1..2, i \in 1..MaxPosts :
                      \/ ClientRead(auth, coll)
                      \/ ClientCreate(auth, coll, owner)
                      \/ ClientUpdate(auth, coll, i, owner)
                      \/ ClientDelete(auth, coll, i)
                      \/ ClientReadUser(auth, uid)
                      \/ ClientWriteUser(auth, uid)
                      => ~Allowed']_vars

\* What the policy does keep: a post or category is updated or deleted only by
\* the user its stored userId / createdBy names at the time of the request.
PolicyFollowsStoredOwner ==
    [][\A auth \in Requesters, coll \in Collections :
          \A i \in DOMAIN Docs(coll) :
             ((\E owner \in 1..2 : ClientUpdate(auth, coll, i, owner))
                 \/ ClientDelete(auth, coll, i)) /\ Allowed'
                => auth # 0 /\ auth = OwnerOf(coll, Docs(coll)[i])]_vars

\* The first position from i on where html holds the token tok.
FirstAt(html, i, tok) ==
    CHOOSE j \in i..Len(html) : html[j] = tok /\ \A k \in i..(j - 1) : html[k] # tok

\* html without its anchor tags.
RECURSIVE StripAnchors(_, _)
StripAnchors(html, i) ==
    IF i > Len(html) THEN <<>>
    ELSE IF html[i] = AnchorOpen THEN StripAnchors(html, FirstAt(html, i, AnchorMid) + 1)
    ELSE IF html[i] = AnchorClose THEN StripAnchors(html, i + 1)
    ELSE <<html[i]>> \o StripAnchors(html, i + 1)

\* The anchors of html, in order: the href and the text of each.
RECURSIVE Anchors(_, _)
Anchors(html, i) ==
    IF i > Len(html) THEN <<>>
    ELSE IF html[i] = AnchorOpen
         THEN LET m == FirstAt(html, i, AnchorMid)
                  c == FirstAt(html, m, AnchorClose)
              IN  <<[href |-> SubSeq(html, i + 1, m - 1), body |-> SubSeq(html, m + 1, c - 1)]>>
                      \o Anchors(html, c + 1)
         ELSE Anchors(html, i + 1)

\* The end of the URL whose scheme is at i, 0 when nothing follows the scheme:
\* the characters up to the next whitespace, quote or angle bracket, without
\* the punctuation that trails them.
UrlEnd(text, i) ==
    LET ends == {e \in (i + 1)..RunEnd(text, i) : UrlEndChar(text[e])}
    IN  IF ends = {} THEN 0 ELSE CHOOSE e \in ends : \A f \in ends : f <= e

\* The http:// and https:// URLs of text, from left to right.
RECURSIVE Urls(_, _)
Urls(text, i) ==
    IF i > Len(text) THEN <<>>
    ELSE IF Scheme(text[i]) /\ UrlEnd(text, i) # 0
         THEN <<SubSeq(text, i, UrlEnd(text, i))>> \o Urls(text, UrlEnd(text, i) + 1)
         ELSE Urls(text, i + 1)

\* C18: for every text, linkifyText wraps every well-formed http:// or
\* https:// URL substring in an anchor tag and alters no text outside the
\* URLs: the output without its anchor tags is the input, the anchors are the
\* URLs of the input in order, and each anchor's href is the URL it wraps.
C18_LinkifyWrapsEveryUrl ==
    outcome.of = "linkifyText"
       => LET anchors == Anchors(outcome.result, 1)
              urls == Urls(outcome.text, 1)
          IN  /\ StripAnchors(outcome.result, 1) = outcome.text
              /\ Len(anchors) = Len(urls)
              /\ \A k \in DOMAIN anchors :
                    anchors[k].href = urls[k] /\ anchors[k].body = urls[k]

\* What linkifyText does keep: the output without its anchor tags is the
\* input, and every anchor wraps one of the input's URLs, its href that URL.
LinkifyKeepsText ==
    outcome.of = "linkifyText"
       => LET anchors == Anchors(outcome.result, 1)
              urls == Urls(outcome.text, 1)
          IN  /\ StripAnchors(outcome.result, 1) = outcome.text
              /\ \A k \in DOMAIN anchors :
                    /\ anchors[k].href = anchors[k].body
                    /\ \E u \in DOMAIN urls : urls[u] = anchors[k].href

\* C19: a signed-in session is ended automatically 7 days after sign-in: once
\* more than 7 days have passed since the sign-in, the user is logged out and
\* the login view is shown.
C19_SessionEndsAfterSevenDays ==
    sessionAge > SessionDays => authUser = 0 /\ currentUser = 0 /\ view = "Login"

\* The posts of all that a query for category c takes: all of them when c is
\* not given or is 'All', those of category c otherwise.
Matching(all, c) ==
    {i \in DOMAIN all : (c # NoText /\ c # All) => all[i].category = c}

\* ps is the result of the query for category c with limit n over all: the
\* newest n matching documents (all of them when there are fewer), each as
\* stored with its id, the newest first.
IsResult(ps, all, c, n) ==
    LET match == Matching(all, c)
    IN  /\ Len(ps) = IF Cardinality(match) < n THEN Cardinality(match) ELSE n
        /\ \A k \in DOMAIN ps : \E i \in match : ps[k] = all[i]
        /\ \A k \in 1..(Len(ps) - 1) : ps[k].createdAt > ps[k + 1].createdAt
        /\ \A i \in match :
              (\A k \in DOMAIN ps : ps[k] # all[i])
                 => \A k \in DOMAIN ps : all[i].createdAt < ps[k].createdAt

\* C20: subscribeToPosts(callback, c, n) returns the handle of a live query
\* with limit n, 50 when none is given; every change of the documents the
\* query matches gives it one snapshot to deliver; each snapshot invokes the
\* callback once with the query's current result, the newest n posts, newest
\* first, each with its id, of category c exactly when c is given and is not
\* 'All'; calling the handle ends the query, which invokes the callback no more.
C20_LiveQueryDeliversResult ==
    [][/\ \A c \in {NoText, All, CatX}, args \in {<<>>, <<1>>, <<2>>} :
             ApiSubscribeToPosts(c, args, FALSE) /\ currentUser # 0
                => /\ IsLive(apiHandle') /\ apiHandle'.dirty
                   /\ apiHandle'.category = c
                   /\ apiHandle'.limit = (IF args = <<>> THEN 50 ELSE args[1])
       /\ IsLive(apiHandle) /\ IsLive(apiHandle')
             /\ {posts[i] : i \in Matching(posts, apiHandle.category)}
                   # {posts'[i] : i \in Matching(posts', apiHandle.category)}
             => apiHandle'.dirty
       /\ PostsSnapshot([at |-> "apiHandle", sub |-> apiHandle])
             => /\ IsResult(outcome'.posts, posts, apiHandle.category, apiHandle.limit)
                /\ IsLive(apiHandle') /\ ~apiHandle'.dirty
       /\ ApiUnsubscribe => ~IsLive(apiHandle')
       /\ outcome'.of = "apiCallback" => IsLive(apiHandle)]_vars

\* The caller's callback has run with the newest post of category X, the one
\* post its limit lets through, while an older post of the category is stored.
C20_Witness ==
    /\ outcome.of = "apiCallback"
    /\ IsLive(apiHandle) /\ apiHandle.category = CatX /\ apiHandle.limit = 1
    /\ Cardinality(Matching(posts, CatX)) = 2
    /\ Len(posts) = 3
    /\ Len(outcome.posts) = 1 /\ outcome.posts[1].id = 3

\* C21: after a successful sign-up, from any prior state of the page, the
\* dashboard that replaces the sign-up page has 'All messages' selected: the
\* selected category is 'All', the posts query it opens is unfiltered, and the
\* post list shows no posts until the first snapshot arrives.
C21_SignupShowsAllMessages ==
    [][AuthStateChanged(FALSE, FALSE) /\ view = "Signup" /\ view' = "Dashboard"
          /\ currentUser = 0 /\ currentUser' # 0 /\ accounts[currentUser'] = EmailB
          => /\ selectedCategory' = All
             /\ postsUnsubscribe'.category \in {NoText, All}
             /\ postsContainer' = Loading]_vars

Trimmed(name, text) ==
    /\ name # <<>> /\ ~IsSpace(name[1]) /\ ~IsSpace(name[Len(name)])
    /\ \E a \in 0..Len(text) :
          /\ a + Len(name) <= Len(text)
          /\ SubSeq(text, a + 1, a + Len(name)) = name
          /\ \A k \in (1..a) \cup ((a + Len(name) + 1)..Len(text)) : IsSpace(text[k])

\* C23: createCategory validates like createPost: for an authenticated user a
\* name that is missing, empty or only whitespace fails with 'Category name
\* cannot be empty' and issues no provider call; otherwise one addDoc is
\* issued with the name trimmed, the stored category has that name and an id
\* no other stored category has, and it is stored whether or not a category
\* of that name exists.
C23_CreateCategoryValidates ==
    [][/\ \A n \in CategoryNames :
             ApiCreateCategory(n) /\ currentUser # 0
                => IF n = Undefined \/ \A k \in DOMAIN n : IsSpace(n[k])
                   THEN /\ outcome' = Outcome("createCategory", "Category name cannot be empty")
                        /\ inflight' = inflight
                   ELSE /\ Started("addCategory")
                        /\ Trimmed(inflight'[Len(inflight')].b.name, n)
       /\ \A i \in DOMAIN inflight :
             AddCategoryOk(i)
                => /\ Len(cats') = Len(cats) + 1
                   /\ \A j \in DOMAIN cats : cats'[j] = cats[j]
                   /\ cats'[Len(cats')].name = inflight[i].b.name
                   /\ \A j \in DOMAIN cats : cats[j].id # cats'[Len(cats')].id
                   /\ outcome' = Outcome("createCategory", "ok")]_vars

\* Two categories of the same name are stored, the second created from a name
\* with blanks around it.
C23_Witness ==
    /\ Len(cats) = 2
    /\ cats[1].name = cats[2].name /\ cats[1].id # cats[2].id
    /\ outcome = Outcome("createCategory", "ok")

\* C24: if registerUser fails, and the sign-up form reports the error, no
\* identity is left signed in by that attempt: when the rejection arrives the
\* provider does not hold the identity the attempt created as signed in, and
\* the page does not show it the dashboard.
C24_FailedSignupLeavesNoSession ==
    [][\A i \in DOMAIN inflight :
          /\ SetProfileFail(i)
                => /\ authUser' # inflight[i].uid
                   /\ ~(view' = "Dashboard" /\ currentUser' = inflight[i].uid)
          /\ \A code \in ErrorCodes :
                CreateUserFail(i, code) => authUser' = authUser /\ view' = view]_vars

\* C25: a posts snapshot or a posts subscription error is delivered to the
\* renderer only while the dashboard is displayed, so renderPosts always finds
\* its container and never throws.
C25_PostsCallbackOnlyOnDashboard ==
    [][\A q \in Queries :
          /\ q.sub.kind = "posts" /\ q.at # "apiHandle"
          /\ PostsSnapshot(q) \/ SubscriptionError(q)
          => /\ view = "Dashboard"
             /\ outcome' = Outcome("postsCallback", "ok")]_vars

\* C26: whenever a posts callback re-renders the feed of the dashboard, it is
\* the callback of the query the renderer holds in postsUnsubscribe, and that
\* query was opened for the currently selected category: a query of an earlier
\* selection or of an earlier dashboard never overwrites the feed.
C26_FeedRenderedByCurrentQuery ==
    [][\A q \in Queries :
          /\ q.sub.kind = "posts" /\ q.at # "apiHandle"
          /\ PostsSnapshot(q) \/ SubscriptionError(q)
          /\ view = "Dashboard"
          => /\ q.at = "postsUnsubscribe"
             /\ q.sub.category = selectedCategory]_vars

\* C27: while the dashboard is displayed, the selected category is 'All' or
\* the name of a category in the renderer's categories list.
C27_SelectionIsListed ==
    view = "Dashboard"
        => \/ selectedCategory = All
           \/ \E i \in DOMAIN categories : categories[i].name = selectedCategory

\* C28: in every state where the dashboard is displayed a user is
\* authenticated: currentUser is not null.
C28_DashboardHasUser == view = "Dashboard" => currentUser # 0

\* The dashboard of a user whose sign-out the provider has completed, before
\* the auth listener has run.
C28_Witness ==
    /\ view = "Dashboard" /\ currentUser # 0
    /\ authUser = 0 /\ outcome = Outcome("logout", "ok")

\* C29: every unsubscribe handle the provider returned is invoked at most
\* once: the renderer never holds a handle that it has called a second time.
C29_HandlesInvokedOnce ==
    /\ postsUnsubscribe.state # "rereleased"
    /\ categoriesUnsubscribe.state # "rereleased"

\* The value the browser reads from an attribute written as s: the entities
\* of & < > stand for their characters, with or without the closing semicolon.
RECURSIVE DecodeEntities(_)
DecodeEntities(s) ==
    LET starts(p) == Len(s) >= Len(p) /\ SubSeq(s, 1, Len(p)) = p
        after(p) == IF Len(s) > Len(p) /\ s[Len(p) + 1] = ";"
                    THEN SubSeq(s, Len(p) + 2, Len(s))
                    ELSE SubSeq(s, Len(p) + 1, Len(s))
    IN  IF s = <<>> THEN <<>>
        ELSE IF starts(<<"&", "a", "m", "p">>)
             THEN <<"&">> \o DecodeEntities(after(<<"&", "a", "m", "p">>))
        ELSE IF starts(<<"&", "l", "t">>)
             THEN <<"<">> \o DecodeEntities(after(<<"&", "l", "t">>))
        ELSE IF starts(<<"&", "g", "t">>)
             THEN <<">">> \o DecodeEntities(after(<<"&", "g", "t">>))
        ELSE <<Head(s)>> \o DecodeEntities(Tail(s))

\* C30: for every post content, the URLs renderPosts generates preview cards
\* for (extractUrls of the raw content) are the URLs linkifyText turns into
\* anchors in the escaped content, in the same order and number: the k-th
\* anchor links to the k-th previewed URL.
C30_PreviewsMatchAnchors ==
    outcome.of = "renderPosts"
       => LET anchors == Anchors(outcome.result, 1)
          IN  /\ Len(anchors) = Len(outcome.urls)
              /\ \A k \in DOMAIN anchors :
                    DecodeEntities(anchors[k].href) = outcome.urls[k]

====
